---- MODULE Spec2Model ----
(***************************************************************************)
(* Family booking portal: the usage endpoint (/api/usage GET), its month   *)
(* window and its overlap primitive.                                       *)
(*                                                                         *)
(* Representation.                                                         *)
(*  - A date string "YYYY-MM-DD" is the tuple <<y, m, d>>, m in 1..12.     *)
(*  - A JavaScript Date (an instant) is an integer: hours since            *)
(*    2025-01-01T00:00Z.  Every instant the code builds is a local         *)
(*    midnight of a zone with whole-hour offsets, so hours lose nothing.   *)
(*  - The process time zone is the record zone: a base UTC offset and the  *)
(*    day intervals in which daylight saving adds one hour.                *)
(*  - A month label "YYYY-MM" is the tuple <<y, m>>.                       *)
(*  - usageRate, a quotient of two integers, is the pair <<num, den>>.     *)
(***************************************************************************)
EXTENDS Integers, Sequences, FiniteSets, TLC

VARIABLES
    zone,           \* time zone of the process that runs the code
    houses,         \* store: table houses, a sequence of [id, name]
    bookings,       \* store: table bookings, a sequence of rows
    pc,             \* position of the GET handler
    now,            \* local calendar fields of new Date() in the handler
    win,            \* result of getPreviousMonthWindow
    houseList,      \* const houses (the fetched house rows)
    bookingRows,    \* the rows the bookings query returned
    response,       \* the NextResponse the handler returned
    ovArgs,         \* arguments of a direct countOverlapDays call
    ovResult,       \* its result, <<r>>
    rate,           \* a direct evaluation of the usageRate expression
    profiles,       \* store: table profiles, user id -> [name, is_admin]
    cal,            \* calendar page: component state and handler position
    adm,            \* admin delete endpoint: request, position, response
    upg,            \* usage page: component state and position of load
    req,            \* the request in flight to /api/usage
    second,         \* a second invocation of the GET handler: its locals
    cnl             \* cancelBooking calls in progress, one per browser session

\* what the usage endpoint and its helpers never touch
web == <<rate, profiles, cal, adm, upg, req, second, cnl>>

vars == <<zone, houses, bookings, pc, now, win, houseList, bookingRows,
          response, ovArgs, ovResult, web>>

\* no value yet (an unset local, a call not made); read only behind pc
None == <<>>

(***************************************************************************)
(* Bounds                                                                  *)
(***************************************************************************)
MaxBookings == 3

\* most rows of the bookings table when one house is booked densely
MaxDense == 6

\* most bookings created on the calendar page in one run
MaxCreated == 2

\* largest daysWithBookings handed to a direct usageRate evaluation
MaxRateDays == 40

(***************************************************************************)
(* Calendar arithmetic of the JavaScript Date object                       *)
(***************************************************************************)
HoursPerDay == 24

IsLeap(y) == (y % 4 = 0 /\ y % 100 # 0) \/ (y % 400 = 0)

DaysInYear(y) == IF IsLeap(y) THEN 366 ELSE 365

\* m is a calendar month 1..12
DaysInMonth(y, m) ==
    CASE m \in {1, 3, 5, 7, 8, 10, 12} -> 31
      [] m \in {4, 6, 9, 11} -> 30
      [] OTHER -> IF IsLeap(y) THEN 29 ELSE 28

RECURSIVE DaysBeforeYear(_)
DaysBeforeYear(y) ==
    IF y = 2025 THEN 0
    ELSE IF y > 2025 THEN DaysBeforeYear(y - 1) + DaysInYear(y - 1)
    ELSE DaysBeforeYear(y + 1) - DaysInYear(y)

RECURSIVE DaysBeforeMonth(_, _)
DaysBeforeMonth(y, m) ==
    IF m <= 1 THEN 0 ELSE DaysBeforeMonth(y, m - 1) + DaysInMonth(y, m - 1)

\* day number of the date string <<y, m, d>>; 2025-01-01 is day 0
DayNumber(date) ==
    DaysBeforeYear(date[1]) + DaysBeforeMonth(date[1], date[2]) + date[3] - 1

RECURSIVE DateFrom(_, _, _)
DateFrom(y, m, rest) ==
    IF rest >= DaysInYear(y) /\ m = 1 THEN DateFrom(y + 1, 1, rest - DaysInYear(y))
    ELSE IF rest >= DaysInMonth(y, m) THEN DateFrom(y, m + 1, rest - DaysInMonth(y, m))
    ELSE <<y, m, rest + 1>>

RECURSIVE DateBack(_, _)
DateBack(y, n) ==
    IF n < 0 THEN DateBack(y - 1, n + DaysInYear(y - 1)) ELSE DateFrom(y, 1, n)

\* the date string of day number n
DateOfDay(n) == DateBack(2025, n)

\* UTC offset in hours in force at local midnight of day n
UtcOffset(z, n) ==
    z.base + (IF \E iv \in z.dst : iv[1] < n /\ n <= iv[2] THEN 1 ELSE 0)

\* the instant of local midnight of day n
LocalMidnight(z, n) == n * HoursPerDay - UtcOffset(z, n)

\* new Date(year, monthIndex, day): monthIndex is 0-based and overflows
\* into the next year
NewDate(z, year, monthIndex, day) ==
    LET y == year + (monthIndex \div 12)
        m == (monthIndex % 12) + 1
    IN  LocalMidnight(z, DayNumber(<<y, m, day>>))

\* new Date(`${str}T00:00:00`): the date string read in local time
ParseLocal(z, str) == LocalMidnight(z, DayNumber(str))

\* date.toISOString().slice(0, 10): the UTC calendar date of the instant
ToISODate(t) == DateOfDay(t \div HoursPerDay)

\* RoundDays with Math.floor in place of Math.round
RoundDaysFloor(h) == h \div HoursPerDay

\* Math.round(ms / (1000 * 60 * 60 * 24)), ms given in hours
RoundDays(h) == (2 * h + HoursPerDay) \div (2 * HoursPerDay)

\* order of two date strings (as the store compares a date column)
DateLT(a, b) ==
    \/ a[1] < b[1]
    \/ a[1] = b[1] /\ a[2] < b[2]
    \/ a[1] = b[1] /\ a[2] = b[2] /\ a[3] < b[3]

(***************************************************************************)
(* getPreviousMonthWindow                                                  *)
(***************************************************************************)
\* getPreviousMonthWindow that keeps the year of now in January
GetPreviousMonthWindowSameYear(z, n) ==
    LET monthIndex == (n.month - 1 + 12) % 12
        monthStart == NewDate(z, n.year, monthIndex, 1)
        monthEnd   == NewDate(z, n.year, monthIndex + 1, 1)
    IN  [ monthStart |-> monthStart,
          monthEnd   |-> monthEnd,
          totalDays  |-> RoundDays(monthEnd - monthStart),
          label      |-> <<n.year, monthIndex + 1>> ]

\* n: the local calendar fields of now, n.month = getMonth() in 0..11
GetPreviousMonthWindow(z, n) ==
    LET prevMonth  == n.month - 1
        year       == IF prevMonth < 0 THEN n.year - 1 ELSE n.year
        monthIndex == (prevMonth + 12) % 12
        monthStart == NewDate(z, year, monthIndex, 1)
        monthEnd   == NewDate(z, year, monthIndex + 1, 1)
    IN  [ monthStart |-> monthStart,
          monthEnd   |-> monthEnd,
          totalDays  |-> RoundDays(monthEnd - monthStart),
          label      |-> <<year, monthIndex + 1>> ]

(***************************************************************************)
(* countOverlapDays                                                        *)
(***************************************************************************)
\* countOverlapDays without the early return on ms <= 0
CountOverlapDaysNoGuard(z, bookingStartStr, bookingEndStr, winStart, winEnd) ==
    LET bs    == ParseLocal(z, bookingStartStr)
        be    == ParseLocal(z, bookingEndStr)
        start == IF bs < winStart THEN winStart ELSE bs
        end   == IF be > winEnd THEN winEnd ELSE be
    IN  RoundDays(end - start)

\* countOverlapDays with the start comparison inverted
CountOverlapDaysMinStart(z, bookingStartStr, bookingEndStr, winStart, winEnd) ==
    LET bs    == ParseLocal(z, bookingStartStr)
        be    == ParseLocal(z, bookingEndStr)
        start == IF bs > winStart THEN winStart ELSE bs
        end   == IF be > winEnd THEN winEnd ELSE be
        ms    == end - start
    IN  IF ms <= 0 THEN 0 ELSE RoundDays(ms)

\* countOverlapDays that does not clamp the end to the window
CountOverlapDaysEndUnclamped(z, bookingStartStr, bookingEndStr, winStart, winEnd) ==
    LET bs    == ParseLocal(z, bookingStartStr)
        be    == ParseLocal(z, bookingEndStr)
        start == IF bs < winStart THEN winStart ELSE bs
        ms    == be - start
    IN  IF ms <= 0 THEN 0 ELSE RoundDays(ms)

CountOverlapDays(z, bookingStartStr, bookingEndStr, winStart, winEnd) ==
    LET bs    == ParseLocal(z, bookingStartStr)
        be    == ParseLocal(z, bookingEndStr)
        start == IF bs < winStart THEN winStart ELSE bs
        end   == IF be > winEnd THEN winEnd ELSE be
        ms    == end - start
    IN  IF ms <= 0 THEN 0 ELSE RoundDays(ms)

(***************************************************************************)
(* GET /api/usage                                                          *)
(***************************************************************************)
\* .from("bookings").select(...).eq("status", "active")
\*     .lt("start_date", monthEndStr).gt("end_date", monthStartStr)
\* the bookings query without .eq("status", "active")
SelectBookingsAnyStatus(table, monthStartStr, monthEndStr) ==
    LET Keep(row) == /\ DateLT(row.start_date, monthEndStr)
                     /\ DateLT(monthStartStr, row.end_date)
    IN  SelectSeq(table, Keep)

SelectBookings(table, monthStartStr, monthEndStr) ==
    LET Keep(row) == /\ row.status = "active"
                     /\ DateLT(row.start_date, monthEndStr)
                     /\ DateLT(monthStartStr, row.end_date)
    IN  SelectSeq(table, Keep)

RECURSIVE SumValues(_, _)
SumValues(f, keys) ==
    IF keys = {} THEN 0
    ELSE LET k == CHOOSE x \in keys : TRUE
         IN  f[k] + SumValues(f, keys \ {k})

\* a lookup that ignores the house id and reads the total of the map
UsageGetIgnoringKey(usage, id) == SumValues(usage, DOMAIN usage)

\* usageByHouse.get(id) ?? 0
UsageGet(usage, id) == IF id \in DOMAIN usage THEN usage[id] ELSE 0

\* usageByHouse.set(id, v)
UsageSet(usage, id, v) ==
    [k \in (DOMAIN usage) \cup {id} |-> IF k = id THEN v ELSE usage[k]]

\* new Map<number, number>()
EmptyUsage == [k \in {} |-> 0]

\* the forEach over bookingRows, from row i on
RECURSIVE AggregateFrom(_, _, _, _, _)
AggregateFrom(z, rows, i, w, usage) ==
    IF i > Len(rows) THEN usage
    ELSE LET row  == rows[i]
             days == CountOverlapDays(z, row.start_date, row.end_date,
                                      w.monthStart, w.monthEnd)
         IN  IF days <= 0
             THEN AggregateFrom(z, rows, i + 1, w, usage)
             ELSE AggregateFrom(z, rows, i + 1, w,
                      UsageSet(usage, row.house_id,
                               UsageGet(usage, row.house_id) + days))

UsageByHouse(z, rows, w) == AggregateFrom(z, rows, 1, w, EmptyUsage)

\* the usageRate expression without its guard on totalDays
UsageRateUnguarded(daysWithBookings, totalDays) == <<daysWithBookings, totalDays>>

\* totalDays > 0 ? daysWithBookings / totalDays : 0, as <<num, den>>
UsageRate(daysWithBookings, totalDays) ==
    IF totalDays > 0 THEN <<daysWithBookings, totalDays>> ELSE <<0, 1>>

\* rows built only for the houses that have an entry in the usage map
BuildRowsOfBookedHouses(hs, usage, w) ==
    LET Booked(h) == h.id \in DOMAIN usage
        bs == SelectSeq(hs, Booked)
    IN  [i \in 1..Len(bs) |->
            [ houseId          |-> bs[i].id,
              houseName        |-> bs[i].name,
              month            |-> w.label,
              daysWithBookings |-> usage[bs[i].id],
              totalDays        |-> w.totalDays,
              usageRate        |-> <<usage[bs[i].id], w.totalDays>> ]]

\* rows whose daysWithBookings is capped at totalDays
BuildRowsCapped(hs, usage, w) ==
    [i \in 1..Len(hs) |->
        LET total == UsageGet(usage, hs[i].id)
            daysWithBookings == IF total > w.totalDays THEN w.totalDays ELSE total
        IN  [ houseId          |-> hs[i].id,
              houseName        |-> hs[i].name,
              month            |-> w.label,
              daysWithBookings |-> daysWithBookings,
              totalDays        |-> w.totalDays,
              usageRate        |-> UsageRate(daysWithBookings, w.totalDays) ]]

\* houses.map((h) => ({ ... }))
BuildRows(hs, usage, w) ==
    [i \in 1..Len(hs) |->
        LET daysWithBookings == UsageGet(usage, hs[i].id)
        IN  [ houseId          |-> hs[i].id,
              houseName        |-> hs[i].name,
              month            |-> w.label,
              daysWithBookings |-> daysWithBookings,
              totalDays        |-> w.totalDays,
              usageRate        |-> UsageRate(daysWithBookings, w.totalDays) ]]

ErrorResponse == [status |-> 500, rows |-> None]

\* the handler up to its first await: the window, then the houses query
GetBegin(n) ==
    /\ pc = "idle"
    /\ now' = n
    /\ win' = GetPreviousMonthWindow(zone, n)
    /\ pc' = "awaitHouses"
    /\ UNCHANGED <<zone, houses, bookings, houseList, bookingRows, response,
                   ovArgs, ovResult, web>>

\* houseErr is set
GetHousesError ==
    /\ pc = "awaitHouses"
    /\ response' = ErrorResponse
    /\ pc' = "done"
    /\ UNCHANGED <<zone, houses, bookings, now, win, houseList, bookingRows,
                   ovArgs, ovResult, web>>

\* the houses query answers; the bookings query is issued
GetHousesOk ==
    /\ pc = "awaitHouses"
    /\ houseList' = houses
    /\ pc' = "awaitBookings"
    /\ UNCHANGED <<zone, houses, bookings, now, win, bookingRows, response,
                   ovArgs, ovResult, web>>

\* bookingErr is set, and the handler goes on with (bookingRows ?? [])
GetBookingsErrorAsEmpty ==
    /\ pc = "awaitBookings"
    /\ response' = [ status    |-> 200,
                     month     |-> win.label,
                     totalDays |-> win.totalDays,
                     rows      |-> BuildRows(houseList, EmptyUsage, win) ]
    /\ pc' = "done"
    /\ UNCHANGED <<zone, houses, bookings, now, win, houseList, bookingRows,
                   ovArgs, ovResult, web>>

\* bookingErr is set
GetBookingsError ==
    /\ pc = "awaitBookings"
    /\ response' = ErrorResponse
    /\ pc' = "done"
    /\ UNCHANGED <<zone, houses, bookings, now, win, houseList, bookingRows,
                   ovArgs, ovResult, web>>

\* the bookings query answers; aggregation and response, and the counted
\* rows are taken out of the table
GetBookingsOkArchiving ==
    /\ pc = "awaitBookings"
    /\ LET monthStartStr == ToISODate(win.monthStart)
           monthEndStr   == ToISODate(win.monthEnd)
           fetched       == SelectBookings(bookings, monthStartStr, monthEndStr)
           usage         == UsageByHouse(zone, fetched, win)
           Left(row)     == \A i \in 1..Len(fetched) : fetched[i] # row
       IN  /\ bookingRows' = fetched
           /\ bookings' = SelectSeq(bookings, Left)
           /\ response' = [ status    |-> 200,
                            month     |-> win.label,
                            totalDays |-> win.totalDays,
                            rows      |-> BuildRows(houseList, usage, win) ]
    /\ pc' = "done"
    /\ UNCHANGED <<zone, houses, now, win, houseList, ovArgs, ovResult, web>>

\* the bookings query answers; aggregation and response
GetBookingsOk ==
    /\ pc = "awaitBookings"
    /\ LET monthStartStr == ToISODate(win.monthStart)
           monthEndStr   == ToISODate(win.monthEnd)
           fetched       == SelectBookings(bookings, monthStartStr, monthEndStr)
           usage         == UsageByHouse(zone, fetched, win)
       IN  /\ bookingRows' = fetched
           /\ response' = [ status    |-> 200,
                            month     |-> win.label,
                            totalDays |-> win.totalDays,
                            rows      |-> BuildRows(houseList, usage, win) ]
    /\ pc' = "done"
    /\ UNCHANGED <<zone, houses, bookings, now, win, houseList, ovArgs, ovResult, web>>

\* a direct call of countOverlapDays on the drawn arguments
CallCountOverlapDays ==
    /\ ovArgs # None
    /\ ovResult = None
    /\ ovResult' = <<CountOverlapDays(zone, ovArgs.bs, ovArgs.be,
                                      ParseLocal(zone, ovArgs.ws),
                                      ParseLocal(zone, ovArgs.we))>>
    /\ UNCHANGED <<zone, houses, bookings, pc, now, win, houseList,
                   bookingRows, response, ovArgs, web>>

\* a direct evaluation of the usageRate expression on the drawn numbers
CallUsageRate ==
    /\ rate # None
    /\ rate.result = None
    /\ rate' = [rate EXCEPT !.result = UsageRate(rate.days, rate.totalDays)]
    /\ UNCHANGED <<zone, houses, bookings, pc, now, win, houseList,
                   bookingRows, response, ovArgs, ovResult,
                   profiles, cal, adm, upg, req, second, cnl>>

(***************************************************************************)
(* Inputs                                                                  *)
(***************************************************************************)
\* time zones: UTC; New York, Berlin and Sydney with their daylight saving
\* intervals (left-open in local midnights: the switch happens after
\* midnight of the first day)
Zones ==
    { [name |-> "UTC", base |-> 0, dst |-> {}],
      [name |-> "America/New_York", base |-> 0 - 5,
       dst |-> { <<DayNumber(<<2025, 3, 9>>), DayNumber(<<2025, 11, 2>>)>>,
                 <<DayNumber(<<2026, 3, 8>>), DayNumber(<<2026, 11, 1>>)>> }],
      [name |-> "Europe/Berlin", base |-> 1,
       dst |-> { <<DayNumber(<<2025, 3, 30>>), DayNumber(<<2025, 10, 26>>)>>,
                 <<DayNumber(<<2026, 3, 29>>), DayNumber(<<2026, 10, 25>>)>> }],
      [name |-> "Australia/Sydney", base |-> 10,
       dst |-> { <<DayNumber(<<2024, 10, 6>>), DayNumber(<<2025, 4, 6>>)>>,
                 <<DayNumber(<<2025, 10, 5>>), DayNumber(<<2026, 4, 5>>)>>,
                 <<DayNumber(<<2026, 10, 4>>), DayNumber(<<2027, 4, 4>>)>> }] }

House(i, n) == [id |-> i, name |-> n]

HouseTables ==
    { <<>>,
      <<House(1, "Bay Ave")>>,
      <<House(2, "Bear Ln"), House(1, "Bay Ave")>>,
      <<House(1, "Bay Ave"), House(2, "Bear Ln"), House(3, "Cabin")>> }

Booking(h, s, e, st) ==
    [house_id |-> h, start_date |-> s, end_date |-> e, status |-> st]

BookingPool ==
    { Booking(1, <<2026, 1, 10>>, <<2026, 1, 15>>, "active"),
      Booking(1, <<2026, 1, 14>>, <<2026, 1, 20>>, "active"),
      Booking(2, <<2025, 12, 28>>, <<2026, 1, 3>>, "active"),
      Booking(1, <<2026, 1, 12>>, <<2026, 1, 18>>, "cancelled"),
      Booking(2, <<2026, 1, 30>>, <<2026, 2, 2>>, "active"),
      Booking(1, <<2026, 1, 31>>, <<2026, 2, 3>>, "active"),
      Booking(3, <<2026, 3, 6>>, <<2026, 3, 10>>, "active") }

BookingTables == UNION { [1..n -> BookingPool] : n \in 0..MaxBookings }

\* invocation dates of the endpoint (getMonth() is 0-based)
NowDates ==
    { [year |-> 2026, month |-> 0, date |-> 15],
      [year |-> 2026, month |-> 1, date |-> 5],
      [year |-> 2026, month |-> 2, date |-> 1],
      [year |-> 2026, month |-> 3, date |-> 2] }

AllNowDates == [year : 2024..2026, month : 0..11, date : {1, 15, 28}]

SampleDates ==
    { <<2025, 12, 28>>, <<2025, 12, 31>>, <<2026, 1, 1>>, <<2026, 1, 3>>,
      <<2026, 1, 10>>, <<2026, 1, 30>>, <<2026, 1, 31>>, <<2026, 2, 1>>,
      <<2026, 2, 2>>, <<2026, 3, 6>>, <<2026, 3, 8>>, <<2026, 3, 9>>,
      <<2026, 3, 10>>, <<2026, 4, 5>>, <<2026, 4, 6>> }

WindowDates ==
    { <<2025, 12, 1>>, <<2026, 1, 1>>, <<2026, 1, 15>>, <<2026, 2, 1>>,
      <<2026, 3, 1>>, <<2026, 4, 1>>, <<2026, 5, 1>> }

(***************************************************************************)
(* Specifications                                                          *)
(***************************************************************************)
\* nothing outside the usage endpoint is in use
WebIdle ==
    /\ rate = None
    /\ profiles = None
    /\ cal = None
    /\ adm = None
    /\ upg = None
    /\ req = None
    /\ second = None
    /\ cnl = None

HandlerIdle ==
    /\ pc = "idle"
    /\ now = None
    /\ win = None
    /\ houseList = None
    /\ bookingRows = None
    /\ response = None

\* the endpoint over a store
Init ==
    /\ zone \in Zones
    /\ houses \in HouseTables
    /\ bookings \in BookingTables
    /\ HandlerIdle
    /\ ovArgs = None
    /\ ovResult = None
    /\ WebIdle

Next ==
    \/ \E n \in NowDates : GetBegin(n)
    \/ GetHousesError
    \/ GetHousesOk
    \/ GetBookingsError
    \/ GetBookingsOk

Spec == Init /\ [][Next]_vars

\* getPreviousMonthWindow on every invocation date
InitWindow ==
    /\ zone \in Zones
    /\ houses = <<>>
    /\ bookings = <<>>
    /\ HandlerIdle
    /\ ovArgs = None
    /\ ovResult = None
    /\ WebIdle

NextWindow == \E n \in AllNowDates : GetBegin(n)

SpecWindow == InitWindow /\ [][NextWindow]_vars

\* countOverlapDays on drawn arguments
InitOverlap ==
    /\ zone \in Zones
    /\ houses = <<>>
    /\ bookings = <<>>
    /\ HandlerIdle
    /\ ovArgs \in [bs : SampleDates, be : SampleDates,
                   ws : WindowDates, we : WindowDates]
    /\ ovResult = None
    /\ WebIdle

NextOverlap == CallCountOverlapDays

SpecOverlap == InitOverlap /\ [][NextOverlap]_vars

\* rows of one month: two stays of 7 nights, the longest the portal
\* creates, and a row longer than the month, which only a writer other
\* than the portal can have stored
DensePool ==
    { Booking(2, <<2026, 1, 10>>, <<2026, 1, 17>>, "active"),
      Booking(1, <<2026, 1, 5>>, <<2026, 1, 12>>, "active"),
      Booking(3, <<2025, 12, 20>>, <<2026, 2, 10>>, "active") }

DenseTables == UNION { [1..n -> DensePool] : n \in 0..MaxDense }

\* the endpoint over a store in which a house may be booked many times
InitDense ==
    /\ zone \in Zones
    /\ houses = <<House(1, "Bay Ave"), House(2, "Bear Ln"), House(3, "Cabin")>>
    /\ bookings \in DenseTables
    /\ HandlerIdle
    /\ ovArgs = None
    /\ ovResult = None
    /\ WebIdle

SpecDense == InitDense /\ [][Next]_vars

\* rows with end_date <= start_date, which the portal never inserts, beside
\* one well-formed stay
MalformedPool ==
    { Booking(1, <<2026, 1, 20>>, <<2026, 1, 18>>, "active"),
      Booking(1, <<2026, 1, 10>>, <<2026, 1, 10>>, "active"),
      Booking(2, <<2026, 2, 3>>, <<2025, 12, 28>>, "active"),
      Booking(3, <<2026, 3, 10>>, <<2026, 3, 6>>, "active"),
      Booking(1, <<2026, 1, 10>>, <<2026, 1, 15>>, "active") }

MalformedTables == UNION { [1..n -> MalformedPool] : n \in 0..MaxBookings }

\* the endpoint over a store that holds malformed rows
InitMalformed ==
    /\ zone \in Zones
    /\ houses = <<House(1, "Bay Ave"), House(2, "Bear Ln"), House(3, "Cabin")>>
    /\ bookings \in MalformedTables
    /\ HandlerIdle
    /\ ovArgs = None
    /\ ovResult = None
    /\ WebIdle

SpecMalformed == InitMalformed /\ [][Next]_vars

\* the endpoint over a store, and the usageRate expression on drawn numbers
\* (totalDays = 0 included, which no calendar month produces)
InitRate ==
    \/ Init
    \/ /\ zone \in Zones
       /\ houses = <<>>
       /\ bookings = <<>>
       /\ HandlerIdle
       /\ ovArgs = None
       /\ ovResult = None
       /\ rate \in [days : 0..MaxRateDays, totalDays : {0} \cup 28..31,
                    result : {None}]
       /\ profiles = None
       /\ cal = None
       /\ adm = None
       /\ upg = None
       /\ req = None
       /\ second = None
       /\ cnl = None

NextRate ==
    \/ Next
    \/ CallUsageRate

SpecRate == InitRate /\ [][NextRate]_vars

(***************************************************************************)
(* Calendar page: creating a booking                                       *)
(*                                                                         *)
(* cal is the component state of CalendarPage together with the browser    *)
(* session and page location and the closure of the confirmCreateBooking  *)
(* call in progress (cal.call).  A number is the record [finite, tenths]:  *)
(* Number("2.5") is [finite |-> TRUE, tenths |-> 25].  The note is carried *)
(* to the insert unchanged and is left out, and so are the toasts, which   *)
(* no code reads back.                                                     *)
(***************************************************************************)
\* everything but the calendar page and the bookings table
calFrame == <<zone, houses, pc, now, win, houseList, bookingRows, response,
              ovArgs, ovResult, rate, profiles, adm, upg, req, second, cnl>>

Num(t) == [finite |-> TRUE, tenths |-> t]

NaN == [finite |-> FALSE, tenths |-> 0]

\* Number(guestCountInput) on the inputs typed in the model
NumberOf(str) ==
    CASE str = "2"   -> Num(20)
      [] str = "1"   -> Num(10)
      [] str = "0"   -> Num(0)
      [] str = ""    -> Num(0)
      [] str = "2.5" -> Num(25)
      [] str = "-3"  -> Num(0 - 30)
      [] OTHER       -> NaN

GuestInputs == {"2", "0", "2.5", "abc"}

\* a row of table bookings as the calendar page inserts it
BookingRow(i, h, by, g, s, e) ==
    [id |-> i, house_id |-> h, created_by |-> by, guest_count |-> g,
     start_date |-> s, end_date |-> e, status |-> "active"]

\* the checks of confirmCreateBooking without the check of more than 7
\* nights
CreateDecisionNoMaxStay(z, guestCountInput, pendingStart, pendingEnd) ==
    LET guestCount == NumberOf(guestCountInput)
        nights == RoundDays(ParseLocal(z, pendingEnd) - ParseLocal(z, pendingStart))
    IN  IF ~guestCount.finite \/ guestCount.tenths < 10
        THEN "Guest count must be a number >= 1."
        ELSE IF nights <= 0 THEN "Invalid date range."
        ELSE "insert"

\* the checks of confirmCreateBooking between getSession and the insert:
\* the modal error to set, or "insert"
CreateDecision(z, guestCountInput, pendingStart, pendingEnd) ==
    LET guestCount == NumberOf(guestCountInput)
        start  == ParseLocal(z, pendingStart)
        end    == ParseLocal(z, pendingEnd)
        nights == RoundDays(end - start)
    IN  IF ~guestCount.finite \/ guestCount.tenths < 10
        THEN "Guest count must be a number >= 1."
        ELSE IF nights <= 0 THEN "Invalid date range."
        ELSE IF nights > 7 THEN "Max stay is 7 nights."
        ELSE "insert"

\* openCreateModal, called by onSelect with the selected date strings; an
\* open dialog covers the calendar
OpenCreateModal(startStr, endStr) ==
    /\ cal.location = "/calendar"
    /\ ~cal.bookingModalOpen
    /\ Len(bookings) < MaxCreated
    /\ cal' = [cal EXCEPT !.pendingStart = startStr,
                          !.pendingEnd = endStr,
                          !.guestCountInput = "2",
                          !.modalError = "none",
                          !.bookingModalOpen = TRUE]
    /\ UNCHANGED <<bookings, calFrame>>

\* closeCreateModal
ClosedCreateModal(c) ==
    [c EXCEPT !.bookingModalOpen = FALSE,
              !.pendingStart = None,
              !.pendingEnd = None,
              !.guestCountInput = "2",
              !.modalError = "none"]

\* Esc, a click on the backdrop, or the Cancel button while it is enabled
CloseCreateModal ==
    /\ cal.location = "/calendar"
    /\ cal.bookingModalOpen
    /\ cal' = ClosedCreateModal(cal)
    /\ UNCHANGED <<bookings, calFrame>>

\* onChange of the guests input
TypeGuestCount(str) ==
    /\ cal.location = "/calendar"
    /\ cal.bookingModalOpen
    /\ cal.guestCountInput # str
    /\ cal' = [cal EXCEPT !.guestCountInput = str]
    /\ UNCHANGED <<bookings, calFrame>>

\* onChange of the house select; an open dialog covers it
SelectHouse(id) ==
    /\ cal.location = "/calendar"
    /\ ~cal.bookingModalOpen
    /\ cal.selectedHouseId # id
    /\ cal' = [cal EXCEPT !.selectedHouseId = id]
    /\ UNCHANGED <<bookings, calFrame>>

\* the session ends (sign-out elsewhere, expiry)
SessionEnds ==
    /\ cal.session # "none"
    /\ cal' = [cal EXCEPT !.session = "none"]
    /\ UNCHANGED <<bookings, calFrame>>

\* confirmCreateBooking returns at its first two lines
ConfirmDropped ==
    /\ cal.location = "/calendar"
    /\ cal.bookingModalOpen
    /\ \/ cal.selectedHouseId = 0
       \/ cal.pendingStart = None
       \/ cal.pendingEnd = None
       \/ cal.saving
    /\ cal' = cal
    /\ UNCHANGED <<bookings, calFrame>>

\* confirmCreateBooking up to the await of getUser, without the return on
\* saving
ConfirmBeginWhileSaving ==
    /\ cal.location = "/calendar"
    /\ cal.bookingModalOpen
    /\ cal.selectedHouseId # 0
    /\ cal.pendingStart # None
    /\ cal.pendingEnd # None
    /\ cal' = [cal EXCEPT
                 !.modalError = "none",
                 !.saving = TRUE,
                 !.call = [pc |-> "getUser",
                           selectedHouseId |-> cal.selectedHouseId,
                           pendingStart |-> cal.pendingStart,
                           pendingEnd |-> cal.pendingEnd,
                           guestCountInput |-> cal.guestCountInput,
                           user |-> "none",
                           accessToken |-> "none"]]
    /\ UNCHANGED <<bookings, calFrame>>

\* confirmCreateBooking up to the await of getUser
ConfirmBegin ==
    /\ cal.location = "/calendar"
    /\ cal.bookingModalOpen
    /\ cal.selectedHouseId # 0
    /\ cal.pendingStart # None
    /\ cal.pendingEnd # None
    /\ ~cal.saving
    /\ cal' = [cal EXCEPT
                 !.modalError = "none",
                 !.saving = TRUE,
                 !.call = [pc |-> "getUser",
                           selectedHouseId |-> cal.selectedHouseId,
                           pendingStart |-> cal.pendingStart,
                           pendingEnd |-> cal.pendingEnd,
                           guestCountInput |-> cal.guestCountInput,
                           user |-> "none",
                           accessToken |-> "none"]]
    /\ UNCHANGED <<bookings, calFrame>>

CallAt(p) == cal.call # None /\ cal.call.pc = p

\* getUser answers without a user: redirect, then the finally block
ConfirmRedirect ==
    /\ CallAt("getUser")
    /\ cal.session = "none"
    /\ cal' = [cal EXCEPT !.location = "/login",
                          !.saving = FALSE,
                          !.call = None]
    /\ UNCHANGED <<bookings, calFrame>>

\* getUser answers with the user; getSession is awaited
ConfirmGotUser ==
    /\ CallAt("getUser")
    /\ cal.session # "none"
    /\ cal' = [cal EXCEPT !.call.user = cal.session,
                          !.call.pc = "getSession"]
    /\ UNCHANGED <<bookings, calFrame>>

\* two stays of one house that share a night
Overlapping(row, houseId, start_date, end_date) ==
    /\ row.house_id = houseId
    /\ row.status = "active"
    /\ DateLT(row.start_date, end_date)
    /\ DateLT(start_date, row.end_date)

\* the failing checks of confirmCreateBooking, with a stay that overlaps an
\* active booking of the house refused as well
ConfirmInvalidOrOverlapping ==
    /\ CallAt("getSession")
    /\ LET d == CreateDecision(zone, cal.call.guestCountInput,
                               cal.call.pendingStart, cal.call.pendingEnd)
           taken == \E i \in 1..Len(bookings) :
                        Overlapping(bookings[i], cal.call.selectedHouseId,
                                    cal.call.pendingStart, cal.call.pendingEnd)
       IN  /\ d # "insert" \/ taken
           /\ cal' = [cal EXCEPT
                        !.modalError = IF d # "insert" THEN d ELSE "Dates are taken.",
                        !.saving = FALSE,
                        !.call = None]
    /\ UNCHANGED <<bookings, calFrame>>

\* getSession answers; the checks fail: modal error, then the finally block
ConfirmInvalid ==
    /\ CallAt("getSession")
    /\ LET d == CreateDecision(zone, cal.call.guestCountInput,
                               cal.call.pendingStart, cal.call.pendingEnd)
       IN  /\ d # "insert"
           /\ cal' = [cal EXCEPT !.modalError = d,
                                 !.saving = FALSE,
                                 !.call = None]
    /\ UNCHANGED <<bookings, calFrame>>

\* getSession answers; the checks pass and the insert is sent
ConfirmInsert ==
    /\ CallAt("getSession")
    /\ CreateDecision(zone, cal.call.guestCountInput,
                      cal.call.pendingStart, cal.call.pendingEnd) = "insert"
    /\ cal' = [cal EXCEPT
                 !.call.accessToken = IF cal.session = "none" THEN "none" ELSE "token",
                 !.call.pc = "insert"]
    /\ UNCHANGED <<bookings, calFrame>>

\* the store refuses the insert: an error toast, then the finally block
ConfirmInsertError ==
    /\ CallAt("insert")
    /\ cal' = [cal EXCEPT !.saving = FALSE,
                          !.call = None]
    /\ UNCHANGED <<bookings, calFrame>>

\* the store takes the row: toast, closeCreateModal, refresh; then the
\* notification is sent, or (no access token) the finally block runs
ConfirmInserted ==
    /\ CallAt("insert")
    /\ bookings' = Append(bookings,
           BookingRow(Len(bookings) + 1, cal.call.selectedHouseId, cal.call.user,
                      NumberOf(cal.call.guestCountInput),
                      cal.call.pendingStart, cal.call.pendingEnd))
    /\ LET closed == [ClosedCreateModal(cal) EXCEPT
                         !.refreshKey = cal.refreshKey + 1]
       IN  cal' = IF cal.call.accessToken # "none"
                  THEN [closed EXCEPT !.call.pc = "notify"]
                  ELSE [closed EXCEPT !.saving = FALSE, !.call = None]
    /\ UNCHANGED calFrame

\* /api/notify-booked answers or fails (the failure is caught); finally
ConfirmNotified ==
    /\ CallAt("notify")
    /\ cal' = [cal EXCEPT !.saving = FALSE, !.call = None]
    /\ UNCHANGED <<bookings, calFrame>>

\* selections handed to onSelect: stays of 1, 7 (across the daylight saving
\* switch), 8, 0 and -1 nights
SelectRanges ==
    { << <<2026, 3, 6>>, <<2026, 3, 7>> >>,
      << <<2026, 3, 7>>, <<2026, 3, 14>> >>,
      << <<2026, 3, 6>>, <<2026, 3, 14>> >>,
      << <<2026, 3, 7>>, <<2026, 3, 7>> >>,
      << <<2026, 3, 7>>, <<2026, 3, 6>> >> }

\* the browser's zone: one whose daylight saving switch (8 March 2026) lies
\* inside some of the selections and outside others
CalendarZones == { z \in Zones : z.name = "America/New_York" }

\* the calendar page after load: houses listed, the first one selected
InitCalendar ==
    /\ zone \in CalendarZones
    /\ houses = <<House(1, "Bay Ave"), House(2, "Bear Ln")>>
    /\ bookings = <<>>
    /\ HandlerIdle
    /\ ovArgs = None
    /\ ovResult = None
    /\ rate = None
    /\ profiles = [u \in {"u1"} |-> [name |-> "Ann", is_admin |-> FALSE]]
    /\ cal = [ session |-> "u1",
               location |-> "/calendar",
               houses |-> houses,
               selectedHouseId |-> 1,
               bookingModalOpen |-> FALSE,
               pendingStart |-> None,
               pendingEnd |-> None,
               guestCountInput |-> "2",
               saving |-> FALSE,
               modalError |-> "none",
               refreshKey |-> 0,
               call |-> None ]
    /\ adm = None
    /\ upg = None
    /\ req = None
    /\ second = None
    /\ cnl = None

NextCalendar ==
    \/ \E r \in SelectRanges : OpenCreateModal(r[1], r[2])
    \/ CloseCreateModal
    \/ \E g \in GuestInputs : TypeGuestCount(g)
    \/ \E h \in {1, 2} : SelectHouse(h)
    \/ SessionEnds
    \/ ConfirmDropped
    \/ ConfirmBegin
    \/ ConfirmRedirect
    \/ ConfirmGotUser
    \/ ConfirmInvalid
    \/ ConfirmInsert
    \/ ConfirmInsertError
    \/ ConfirmInserted
    \/ ConfirmNotified

SpecCalendar == InitCalendar /\ [][NextCalendar]_vars

(***************************************************************************)
(* /api/admin-delete-booking: POST                                         *)
(*                                                                         *)
(* adm is the request in progress: the handler's position and its locals.  *)
(* A missing field of the body is "" (accessToken) or 0 (bookingId).       *)
(***************************************************************************)
\* everything but the delete request and the bookings table
admFrame == <<zone, houses, pc, now, win, houseList, bookingRows, response,
              ovArgs, ovResult, rate, profiles, cal, upg, req, second, cnl>>

\* the user an access token stands for, as auth.getUser answers
TokenUser(accessToken) ==
    CASE accessToken = "tokenAdmin"     -> "u2"
      [] accessToken = "tokenUser"      -> "u1"
      [] accessToken = "tokenNoProfile" -> "u3"
      [] OTHER                          -> "none"

AccessTokens == {"", "tokenAdmin", "tokenUser", "tokenNoProfile", "expired"}

BookingIds == 0..3

\* the parsed JSON bodies: null, and objects with or without the fields
PostBodies ==
    {[kind |-> "null", accessToken |-> "", bookingId |-> 0]}
        \cup [kind : {"object"}, accessToken : AccessTokens, bookingId : BookingIds]

\* prof?.is_admin of the row maybeSingle returns (no row: null)
ProfIsAdmin(userId) ==
    IF userId \in DOMAIN profiles THEN profiles[userId].is_admin ELSE FALSE

AdmAt(p) == adm # None /\ adm.pc = p

AdmRespond(status, error) ==
    adm' = [adm EXCEPT !.pc = "done",
                       !.response = [status |-> status, error |-> error]]

\* req.json() throws on a body that is not JSON: the catch block
PostUnparseable ==
    /\ adm = None
    /\ adm' = [pc |-> "done", parsed |-> FALSE, accessToken |-> "", bookingId |-> 0,
               userId |-> "none", profErr |-> FALSE, isAdmin |-> FALSE,
               response |-> [status |-> 500, error |-> "Unexpected token"]]
    /\ UNCHANGED <<bookings, admFrame>>

\* the body parses; the fields are checked and getUser is awaited
PostBegin(body) ==
    /\ adm = None
    /\ LET new == [pc |-> "getUser", parsed |-> TRUE,
                   accessToken |-> body.accessToken, bookingId |-> body.bookingId,
                   userId |-> "none", profErr |-> FALSE, isAdmin |-> FALSE,
                   response |-> None]
       IN  adm' = IF body.accessToken = "" \/ body.bookingId = 0
                  THEN [new EXCEPT !.pc = "done",
                                   !.response = [status |-> 400, error |-> "Missing fields"]]
                  ELSE new
    /\ UNCHANGED <<bookings, admFrame>>

\* getUser answers without a user
PostNotAuthenticated ==
    /\ AdmAt("getUser")
    /\ TokenUser(adm.accessToken) = "none"
    /\ AdmRespond(401, "Not authenticated")
    /\ UNCHANGED <<bookings, admFrame>>

\* getUser answers with the user; the profile is queried
PostGotUser ==
    /\ AdmAt("getUser")
    /\ TokenUser(adm.accessToken) # "none"
    /\ adm' = [adm EXCEPT !.userId = TokenUser(adm.accessToken), !.pc = "profile"]
    /\ UNCHANGED <<bookings, admFrame>>

\* the profile query fails
PostProfileError ==
    /\ AdmAt("profile")
    /\ adm' = [adm EXCEPT !.profErr = TRUE, !.pc = "done",
                          !.response = [status |-> 500, error |-> "profile query failed"]]
    /\ UNCHANGED <<bookings, admFrame>>

\* the profile query answers and every caller with a profile query answer
\* goes on to the delete (no is_admin check)
PostProfileNoAdminCheck ==
    /\ AdmAt("profile")
    /\ adm' = [adm EXCEPT !.isAdmin = ProfIsAdmin(adm.userId), !.pc = "delete"]
    /\ UNCHANGED <<bookings, admFrame>>

\* the profile query answers: 403 unless is_admin, else the delete is sent
PostProfile ==
    /\ AdmAt("profile")
    /\ adm' = IF ~ProfIsAdmin(adm.userId)
              THEN [adm EXCEPT !.pc = "done",
                               !.response = [status |-> 403, error |-> "Forbidden"]]
              ELSE [adm EXCEPT !.isAdmin = TRUE, !.pc = "delete"]
    /\ UNCHANGED <<bookings, admFrame>>

\* the delete fails
PostDeleteError ==
    /\ AdmAt("delete")
    /\ AdmRespond(500, "delete failed")
    /\ UNCHANGED <<bookings, admFrame>>

\* the store deletes the rows with the id
PostDeleted ==
    /\ AdmAt("delete")
    /\ bookings' = SelectSeq(bookings, LAMBDA b : b.id # adm.bookingId)
    /\ AdmRespond(200, "")
    /\ UNCHANGED admFrame

\* the response is sent; the next request can come
PostEnd ==
    /\ AdmAt("done")
    /\ adm' = None
    /\ UNCHANGED <<bookings, admFrame>>

\* stores of the admin route: two bookings of user u1, the second one
\* active or cancelled
AdminBookingTables ==
    { << BookingRow(1, 1, "u1", Num(20), <<2026, 3, 6>>, <<2026, 3, 7>>),
         [BookingRow(2, 1, "u1", Num(20), <<2026, 3, 7>>, <<2026, 3, 14>>)
              EXCEPT !.status = st] >> : st \in {"active", "cancelled"} }

InitAdmin ==
    /\ zone \in CalendarZones
    /\ houses = <<House(1, "Bay Ave"), House(2, "Bear Ln")>>
    /\ bookings \in AdminBookingTables
    /\ HandlerIdle
    /\ ovArgs = None
    /\ ovResult = None
    /\ rate = None
    /\ profiles = [u \in {"u1", "u2"} |->
                      [name |-> IF u = "u1" THEN "Ann" ELSE "Bob",
                       is_admin |-> u = "u2"]]
    /\ cal = None
    /\ adm = None
    /\ upg = None
    /\ req = None
    /\ second = None
    /\ cnl = None

NextAdmin ==
    \/ PostUnparseable
    \/ \E body \in PostBodies : PostBegin(body)
    \/ PostNotAuthenticated
    \/ PostGotUser
    \/ PostProfileError
    \/ PostProfile
    \/ PostDeleteError
    \/ PostDeleted
    \/ PostEnd

SpecAdmin == InitAdmin /\ [][NextAdmin]_vars

(***************************************************************************)
(* /api/usage as a route, and the usage page                               *)
(*                                                                         *)
(* req is the HTTP request to /api/usage in flight, with the user its      *)
(* sender is signed in as ("none": nobody); upg is the state of UsagePage  *)
(* with the position and locals of its load effect.                        *)
(***************************************************************************)
\* everything but the request, the page and the handler of /api/usage
usageFrame == <<zone, houses, bookings, ovArgs, ovResult, rate, profiles, cal, adm,
                second, cnl>>

handlerVars == <<pc, now, win, houseList, bookingRows, response>>

Callers == {"none", "u1", "u2"}

ReqIs(origin, state) == req # None /\ req.origin = origin /\ req.state = state

UpgAt(p) == upg.pc = p

\* any HTTP client sends GET /api/usage
DirectGet(caller) ==
    /\ req = None
    /\ pc = "idle"
    /\ req' = [method |-> "GET", origin |-> "direct", caller |-> caller,
               state |-> "sent", response |-> None]
    /\ UNCHANGED <<upg, handlerVars, usageFrame>>

\* the route module exports GET only: the request runs the GET handler,
\* which reads nothing of the request
RouteGet(n) ==
    /\ req # None
    /\ req.state = "sent"
    /\ req.method = "GET"
    /\ GetBegin(n)

\* a request of another method is answered 405 with an empty body, and no
\* handler runs
RouteMethodNotAllowed ==
    /\ req # None
    /\ req.state = "sent"
    /\ req.method # "GET"
    /\ req' = [req EXCEPT !.state = "answered",
                          !.response = [status |-> 405, body |-> None]]
    /\ UNCHANGED <<upg, handlerVars, usageFrame>>

\* NextResponse.json(...) of the GET handler goes back to the sender
RouteRespond ==
    /\ req # None
    /\ req.state = "sent"
    /\ req.method = "GET"
    /\ pc = "done"
    /\ req' = [req EXCEPT
                 !.state = "answered",
                 !.response =
                     [status |-> response.status,
                      body |-> IF response.status = 200
                               THEN [month |-> response.month,
                                     totalDays |-> response.totalDays,
                                     rows |-> response.rows]
                               ELSE [error |-> "query failed"]]]
    /\ UNCHANGED <<upg, handlerVars, usageFrame>>

\* the direct client takes its answer
DirectReceive ==
    /\ ReqIs("direct", "answered")
    /\ req' = None
    /\ UNCHANGED <<upg, handlerVars, usageFrame>>

\* the page's session ends
PageSessionEnds ==
    /\ upg.session # "none"
    /\ ~UpgAt("done")
    /\ upg' = [upg EXCEPT !.session = "none"]
    /\ UNCHANGED <<req, handlerVars, usageFrame>>

\* load: getUser answers without a user
PageRedirect ==
    /\ UpgAt("getUser")
    /\ upg.session = "none"
    /\ upg' = [upg EXCEPT !.location = "/login", !.loading = FALSE, !.pc = "done"]
    /\ UNCHANGED <<req, handlerVars, usageFrame>>

\* load: getUser answers with the user; the profile is queried
PageGotUser ==
    /\ UpgAt("getUser")
    /\ upg.session # "none"
    /\ upg' = [upg EXCEPT !.userId = upg.session, !.pc = "profile"]
    /\ UNCHANGED <<req, handlerVars, usageFrame>>

\* load: the profile query fails
PageProfileError ==
    /\ UpgAt("profile")
    /\ upg' = [upg EXCEPT !.error = "profile query failed", !.isAdmin = "false",
                          !.loading = FALSE, !.pc = "done"]
    /\ UNCHANGED <<req, handlerVars, usageFrame>>

\* load: the profile query answers
PageProfile ==
    /\ UpgAt("profile")
    /\ upg' = IF ~ProfIsAdmin(upg.userId)
              THEN [upg EXCEPT !.isAdmin = "false", !.loading = FALSE, !.pc = "done"]
              ELSE [upg EXCEPT !.isAdmin = "true", !.pc = "getSession"]
    /\ UNCHANGED <<req, handlerVars, usageFrame>>

\* load: getSession answers without an access token
PageNoToken ==
    /\ UpgAt("getSession")
    /\ upg.session = "none"
    /\ upg' = [upg EXCEPT !.error = "Missing access token",
                          !.loading = FALSE, !.pc = "done"]
    /\ UNCHANGED <<req, handlerVars, usageFrame>>

\* load: fetch("/api/usage", { method: "POST", ... })
PageFetch ==
    /\ UpgAt("getSession")
    /\ upg.session # "none"
    /\ req = None
    /\ req' = [method |-> "POST", origin |-> "page", caller |-> upg.session,
               state |-> "sent", response |-> None]
    /\ upg' = [upg EXCEPT !.pc = "fetch"]
    /\ UNCHANGED <<handlerVars, usageFrame>>

\* load: the response arrives; res.json(), then setError or setData
PageReceive ==
    /\ UpgAt("fetch")
    /\ ReqIs("page", "answered")
    /\ LET res == req.response
       IN  upg' = [upg EXCEPT
                     !.res = res,
                     !.error = IF res.body = None THEN "Unexpected end of JSON input"
                               ELSE IF res.status # 200 THEN res.body.error
                               ELSE @,
                     !.data = IF res.body # None /\ res.status = 200 THEN res.body ELSE @,
                     !.loading = FALSE,
                     !.pc = "done"]
    /\ req' = None
    /\ UNCHANGED <<handlerVars, usageFrame>>

\* data.results.map(...): the rows of the table the page renders
TableRows ==
    IF upg.data = None THEN <<>>
    ELSE IF "results" \in DOMAIN upg.data THEN upg.data.results
    ELSE <<>>

\* stores behind the usage page
UsageBookingTables ==
    { <<>>,
      << Booking(1, <<2026, 1, 10>>, <<2026, 1, 15>>, "active") >> }

InitUsage ==
    /\ zone \in Zones
    /\ houses = <<House(1, "Bay Ave"), House(2, "Bear Ln")>>
    /\ bookings \in UsageBookingTables
    /\ HandlerIdle
    /\ ovArgs = None
    /\ ovResult = None
    /\ rate = None
    /\ profiles = [u \in {"u1", "u2"} |->
                      [name |-> IF u = "u1" THEN "Ann" ELSE "Bob",
                       is_admin |-> u = "u2"]]
    /\ cal = None
    /\ adm = None
    /\ \E u \in Callers :
          upg = [pc |-> "getUser", session |-> u, location |-> "/usage",
                 userId |-> "none", loading |-> TRUE, isAdmin |-> "null",
                 error |-> "none", data |-> None, res |-> None]
    /\ req = None
    /\ second = None
    /\ cnl = None

NextUsage ==
    \/ \E c \in Callers : DirectGet(c)
    \/ \E n \in NowDates : RouteGet(n)
    \/ GetHousesError
    \/ GetHousesOk
    \/ GetBookingsError
    \/ GetBookingsOk
    \/ RouteMethodNotAllowed
    \/ RouteRespond
    \/ DirectReceive
    \/ PageSessionEnds
    \/ PageRedirect
    \/ PageGotUser
    \/ PageProfileError
    \/ PageProfile
    \/ PageNoToken
    \/ PageFetch
    \/ PageReceive

SpecUsage == InitUsage /\ [][NextUsage]_vars

(***************************************************************************)
(* Two invocations of GET /api/usage at once                               *)
(*                                                                         *)
(* The handler's variables are locals of the call (the usageByHouse map    *)
(* is created inside GET); the route module holds only the constant        *)
(* supabase client.  The first invocation is the handler above, second     *)
(* holds the locals of another invocation running at the same time.        *)
(***************************************************************************)
\* everything but the locals of the second invocation
secondFrame == <<zone, houses, bookings, pc, now, win, houseList, bookingRows,
                 response, ovArgs, ovResult, rate, profiles, cal, adm, upg,
                 req, cnl>>

SecondAt(p) == second.pc = p

SecondBegin(n) ==
    /\ SecondAt("idle")
    /\ second' = [second EXCEPT !.now = n,
                                !.win = GetPreviousMonthWindow(zone, n),
                                !.pc = "awaitHouses"]
    /\ UNCHANGED secondFrame

SecondHousesError ==
    /\ SecondAt("awaitHouses")
    /\ second' = [second EXCEPT !.response = ErrorResponse, !.pc = "done"]
    /\ UNCHANGED secondFrame

SecondHousesOk ==
    /\ SecondAt("awaitHouses")
    /\ second' = [second EXCEPT !.houseList = houses, !.pc = "awaitBookings"]
    /\ UNCHANGED secondFrame

SecondBookingsError ==
    /\ SecondAt("awaitBookings")
    /\ second' = [second EXCEPT !.response = ErrorResponse, !.pc = "done"]
    /\ UNCHANGED secondFrame

\* the usage map of the rows another invocation has answered with
UsageOfRows(rows) ==
    [id \in { rows[i].houseId : i \in 1..Len(rows) } |->
        rows[CHOOSE i \in 1..Len(rows) : rows[i].houseId = id].daysWithBookings]

\* the bookings query answers; the aggregation goes on in a usageByHouse
\* map kept at module level, which holds what the first invocation counted
SecondBookingsOkSharedMap ==
    /\ SecondAt("awaitBookings")
    /\ LET w == second.win
           fetched == SelectBookings(bookings, ToISODate(w.monthStart),
                                     ToISODate(w.monthEnd))
           kept  == IF pc = "done" /\ response.status = 200
                    THEN UsageOfRows(response.rows) ELSE EmptyUsage
           usage == AggregateFrom(zone, fetched, 1, w, kept)
       IN  second' = [second EXCEPT
                        !.bookingRows = fetched,
                        !.response = [ status    |-> 200,
                                       month     |-> w.label,
                                       totalDays |-> w.totalDays,
                                       rows      |-> BuildRows(second.houseList, usage, w) ],
                        !.pc = "done"]
    /\ UNCHANGED secondFrame

SecondBookingsOk ==
    /\ SecondAt("awaitBookings")
    /\ LET w == second.win
           fetched == SelectBookings(bookings, ToISODate(w.monthStart),
                                     ToISODate(w.monthEnd))
           usage == UsageByHouse(zone, fetched, w)
       IN  second' = [second EXCEPT
                        !.bookingRows = fetched,
                        !.response = [ status    |-> 200,
                                       month     |-> w.label,
                                       totalDays |-> w.totalDays,
                                       rows      |-> BuildRows(second.houseList, usage, w) ],
                        !.pc = "done"]
    /\ UNCHANGED secondFrame

ConcurrentBookingTables ==
    { <<>>,
      << Booking(1, <<2026, 1, 10>>, <<2026, 1, 15>>, "active") >>,
      << Booking(1, <<2026, 1, 10>>, <<2026, 1, 15>>, "active"),
         Booking(2, <<2026, 1, 30>>, <<2026, 2, 2>>, "active") >> }

InitConcurrent ==
    /\ zone \in Zones
    /\ houses \in HouseTables
    /\ bookings \in ConcurrentBookingTables
    /\ HandlerIdle
    /\ ovArgs = None
    /\ ovResult = None
    /\ rate = None
    /\ profiles = None
    /\ cal = None
    /\ adm = None
    /\ upg = None
    /\ req = None
    /\ second = [pc |-> "idle", now |-> None, win |-> None, houseList |-> None,
                 bookingRows |-> None, response |-> None]
    /\ cnl = None

NextConcurrent ==
    \/ Next
    \/ \E n \in NowDates : SecondBegin(n)
    \/ SecondHousesError
    \/ SecondHousesOk
    \/ SecondBookingsError
    \/ SecondBookingsOk

SpecConcurrent == InitConcurrent /\ [][NextConcurrent]_vars

(***************************************************************************)
(* Calendar page: cancelling a booking                                     *)
(*                                                                         *)
(* cnl.sess[s] is the calendar page of browser session s: the user it is   *)
(* signed in as, its location and refreshKey, and the position and locals  *)
(* of its cancelBooking call (the Cancel button is disabled while a call   *)
(* runs, so a session has one call at a time).  cnl.updates[id] counts the *)
(* update statements the store executed for booking id, cnl.mail[id] the   *)
(* requests sent to /api/notify-cancelled for it.                          *)
(***************************************************************************)
\* most cancelBooking calls of one session
MaxCancelCalls == 2

Sessions == {"s1", "s2"}

CancelIds == 1..3

\* everything but the cancelling sessions and the bookings table
cnlFrame == <<zone, houses, pc, now, win, houseList, bookingRows, response,
              ovArgs, ovResult, rate, profiles, cal, adm, upg, req, second>>

CnlAt(s, p) == cnl.sess[s].pc = p

\* .eq("id", bookingId).maybeSingle(): the row, or None
RowById(table, id) ==
    IF \E i \in 1..Len(table) : table[i].id = id
    THEN table[CHOOSE i \in 1..Len(table) : table[i].id = id]
    ELSE None

\* the session ends (sign-out elsewhere, expiry)
CancelSessionEnds(s) ==
    /\ cnl.sess[s].user # "none"
    /\ cnl' = [cnl EXCEPT !.sess[s].user = "none"]
    /\ UNCHANGED <<bookings, cnlFrame>>

\* the Cancel button of the view dialog: cancelBooking(bookingId) up to the
\* await of getUser
CancelBegin(s, bookingId) ==
    /\ CnlAt(s, "idle")
    /\ cnl.sess[s].location = "/calendar"
    /\ cnl.sess[s].calls < MaxCancelCalls
    /\ cnl' = [cnl EXCEPT !.sess[s].pc = "getUser",
                          !.sess[s].calls = @ + 1,
                          !.sess[s].bookingId = bookingId,
                          !.sess[s].userId = "none",
                          !.sess[s].row = None]
    /\ UNCHANGED <<bookings, cnlFrame>>

\* getUser answers without a user: redirect
CancelRedirect(s) ==
    /\ CnlAt(s, "getUser")
    /\ cnl.sess[s].user = "none"
    /\ cnl' = [cnl EXCEPT !.sess[s].location = "/login", !.sess[s].pc = "idle"]
    /\ UNCHANGED <<bookings, cnlFrame>>

\* getUser answers with the user; getSession, then the select is sent
CancelGotUser(s) ==
    /\ CnlAt(s, "getUser")
    /\ cnl.sess[s].user # "none"
    /\ cnl' = [cnl EXCEPT !.sess[s].userId = cnl.sess[s].user,
                          !.sess[s].pc = "select"]
    /\ UNCHANGED <<bookings, cnlFrame>>

\* fetchErr is set: toast, return
CancelFetchError(s) ==
    /\ CnlAt(s, "select")
    /\ cnl' = [cnl EXCEPT !.sess[s].pc = "idle"]
    /\ UNCHANGED <<bookings, cnlFrame>>

\* the select answers and the update is sent whenever a row was found (no
\* check of created_by)
CancelFetchedNoOwnerCheck(s) ==
    /\ CnlAt(s, "select")
    /\ LET row == RowById(bookings, cnl.sess[s].bookingId)
       IN  cnl' = IF row = None
                  THEN [cnl EXCEPT !.sess[s].pc = "idle"]
                  ELSE IF row.status # "active"
                  THEN [cnl EXCEPT !.sess[s].row = row, !.sess[s].pc = "idle"]
                  ELSE [cnl EXCEPT !.sess[s].row = row, !.sess[s].pc = "update"]
    /\ UNCHANGED <<bookings, cnlFrame>>

\* the select answers: toast and return for no row, another user's row or a
\* row that is not active; else the update is sent
CancelFetched(s) ==
    /\ CnlAt(s, "select")
    /\ LET row == RowById(bookings, cnl.sess[s].bookingId)
       IN  cnl' = IF row = None
                  THEN [cnl EXCEPT !.sess[s].pc = "idle"]
                  ELSE IF row.created_by # cnl.sess[s].userId
                  THEN [cnl EXCEPT !.sess[s].row = row, !.sess[s].pc = "idle"]
                  ELSE IF row.status # "active"
                  THEN [cnl EXCEPT !.sess[s].row = row, !.sess[s].pc = "idle"]
                  ELSE [cnl EXCEPT !.sess[s].row = row, !.sess[s].pc = "update"]
    /\ UNCHANGED <<bookings, cnlFrame>>

\* the update fails: toast, return
CancelUpdateError(s) ==
    /\ CnlAt(s, "update")
    /\ cnl' = [cnl EXCEPT !.sess[s].pc = "idle"]
    /\ UNCHANGED <<bookings, cnlFrame>>

\* update({status: "cancelled", cancelled_at}).eq("id", bookingId) is
\* executed; toast, refresh, and the notification is sent
CancelUpdated(s) ==
    /\ CnlAt(s, "update")
    /\ LET id == cnl.sess[s].bookingId
       IN  /\ bookings' = [i \in 1..Len(bookings) |->
                              IF bookings[i].id = id
                              THEN [bookings[i] EXCEPT !.status = "cancelled"]
                              ELSE bookings[i]]
           /\ cnl' = [cnl EXCEPT !.sess[s].refreshKey = @ + 1,
                                 !.sess[s].pc = "notify",
                                 !.updates[id] = @ + 1,
                                 !.mail[id] = @ + 1]
    /\ UNCHANGED cnlFrame

\* /api/notify-cancelled answers or fails (the failure is caught)
CancelNotified(s) ==
    /\ CnlAt(s, "notify")
    /\ cnl' = [cnl EXCEPT !.sess[s].pc = "idle"]
    /\ UNCHANGED <<bookings, cnlFrame>>

\* stores of the cancel flow: a booking of u1, and a booking of u2 or a
\* cancelled one of u1
CancelBookingTables ==
    { << BookingRow(1, 1, "u1", Num(20), <<2026, 3, 6>>, <<2026, 3, 7>>),
         BookingRow(2, 1, "u2", Num(20), <<2026, 3, 7>>, <<2026, 3, 14>>) >>,
      << BookingRow(1, 1, "u1", Num(20), <<2026, 3, 6>>, <<2026, 3, 7>>),
         [BookingRow(2, 1, "u1", Num(20), <<2026, 3, 7>>, <<2026, 3, 14>>)
              EXCEPT !.status = "cancelled"] >> }

CancelSession(user) ==
    [user |-> user, location |-> "/calendar", refreshKey |-> 0, calls |-> 0,
     pc |-> "idle", bookingId |-> 0, userId |-> "none", row |-> None]

\* two browser sessions: one of u1, the other of u1 or of u2
InitCancel ==
    /\ zone \in CalendarZones
    /\ houses = <<House(1, "Bay Ave"), House(2, "Bear Ln")>>
    /\ bookings \in CancelBookingTables
    /\ HandlerIdle
    /\ ovArgs = None
    /\ ovResult = None
    /\ rate = None
    /\ profiles = [u \in {"u1", "u2"} |->
                      [name |-> IF u = "u1" THEN "Ann" ELSE "Bob",
                       is_admin |-> u = "u2"]]
    /\ cal = None
    /\ adm = None
    /\ upg = None
    /\ req = None
    /\ second = None
    /\ \E u \in {"u1", "u2"} :
          cnl = [sess |-> [s \in Sessions |->
                              CancelSession(IF s = "s1" THEN "u1" ELSE u)],
                 updates |-> [id \in CancelIds |-> 0],
                 mail |-> [id \in CancelIds |-> 0]]

NextCancel ==
    \E s \in Sessions :
        \/ CancelSessionEnds(s)
        \/ \E id \in CancelIds : CancelBegin(s, id)
        \/ CancelRedirect(s)
        \/ CancelGotUser(s)
        \/ CancelFetchError(s)
        \/ CancelFetched(s)
        \/ CancelUpdateError(s)
        \/ CancelUpdated(s)
        \/ CancelNotified(s)

SpecCancel == InitCancel /\ [][NextCancel]_vars

(***************************************************************************)
(* Calendar page: loading, and the required name                           *)
(*                                                                         *)
(* Here cal also holds currentUserId, isAdmin, the state of the name       *)
(* dialog, the runs of the load effect and the saveRequiredName calls in   *)
(* flight.  The effect runs at mount and after every change of refreshKey; *)
(* cal.started counts its runs, and cal.loads[k] is the position of run k  *)
(* (for a run that returned, the return it took) with the selectedHouseId  *)
(* its closure holds.  The colour of a profile is left out.                *)
(***************************************************************************)
\* most saveRequiredName calls that reach the upsert
MaxNameCalls == 2

\* runs of the load effect: the mount, and one per change of refreshKey
LoadRuns == 0..(MaxCreated + MaxNameCalls)

\* everything but the calendar page and the profiles table
loadFrame == <<zone, houses, bookings, pc, now, win, houseList, bookingRows,
               response, ovArgs, ovResult, rate, adm, upg, req, second, cnl>>

\* profile?.name of the row maybeSingle returns ("": no row, or no name)
ProfName(userId) ==
    IF userId \in DOMAIN profiles THEN profiles[userId].name ELSE ""

\* nameInput.trim()
TrimName(str) == IF str = "  " THEN "" ELSE str

NameInputs == {"", "  ", "Cy"}

LoadAt(k, p) == cal.location = "/calendar" /\ cal.loads[k].pc = p

\* the effect runs: load() up to the await of getUser
LoadBegin ==
    /\ cal.location = "/calendar"
    /\ cal.started <= cal.refreshKey
    /\ cal.started \in LoadRuns
    /\ cal' = [cal EXCEPT !.loads[cal.started] =
                              [pc |-> "getUser", userId |-> "none",
                               selectedHouseId |-> cal.selectedHouseId],
                          !.started = @ + 1]
    /\ UNCHANGED <<profiles, loadFrame>>

\* load: getUser answers without a user
LoadRedirect(k) ==
    /\ LoadAt(k, "getUser")
    /\ cal.session = "none"
    /\ cal' = [cal EXCEPT !.location = "/login", !.loads[k].pc = "redirected"]
    /\ UNCHANGED <<profiles, loadFrame>>

\* load: getUser answers with the user; ensureProfileWithName calls getUser
LoadGotUser(k) ==
    /\ LoadAt(k, "getUser")
    /\ cal.session # "none"
    /\ cal' = [cal EXCEPT !.loads[k].pc = "ensure"]
    /\ UNCHANGED <<profiles, loadFrame>>

\* ensureProfileWithName: no user, return false; load returns
EnsureNoUser(k) ==
    /\ LoadAt(k, "ensure")
    /\ cal.session = "none"
    /\ cal' = [cal EXCEPT !.loads[k].pc = "noUser"]
    /\ UNCHANGED <<profiles, loadFrame>>

\* ensureProfileWithName: the user; the profile is queried
EnsureGotUser(k) ==
    /\ LoadAt(k, "ensure")
    /\ cal.session # "none"
    /\ cal' = [cal EXCEPT !.currentUserId = cal.session,
                          !.loads[k].userId = cal.session,
                          !.loads[k].pc = "profile"]
    /\ UNCHANGED <<profiles, loadFrame>>

\* ensureProfileWithName: the profile query fails, return false
EnsureProfileError(k) ==
    /\ LoadAt(k, "profile")
    /\ cal' = [cal EXCEPT !.loads[k].pc = "profileError"]
    /\ UNCHANGED <<profiles, loadFrame>>

\* ensureProfileWithName returns true whatever the profile holds, and the
\* houses are queried
EnsureProfileAnyName(k) ==
    /\ LoadAt(k, "profile")
    /\ cal' = [cal EXCEPT !.isAdmin = ProfIsAdmin(cal.loads[k].userId),
                          !.loads[k].pc = "houses"]
    /\ UNCHANGED <<profiles, loadFrame>>

\* ensureProfileWithName: the profile query answers.  With a name: return
\* true, and load queries the houses.  Without: the name dialog opens,
\* return false, and load returns
EnsureProfile(k) ==
    /\ LoadAt(k, "profile")
    /\ LET userId == cal.loads[k].userId
       IN  cal' = IF ProfName(userId) # ""
                  THEN [cal EXCEPT !.isAdmin = ProfIsAdmin(userId),
                                   !.loads[k].pc = "houses"]
                  ELSE [cal EXCEPT !.isAdmin = ProfIsAdmin(userId),
                                   !.nameUser = userId,
                                   !.nameInput = "",
                                   !.nameError = "none",
                                   !.nameModalOpen = TRUE,
                                   !.loads[k].pc = "noName"]
    /\ UNCHANGED <<profiles, loadFrame>>

\* load: the houses query fails
LoadHousesError(k) ==
    /\ LoadAt(k, "houses")
    /\ cal' = [cal EXCEPT !.loads[k].pc = "housesError"]
    /\ UNCHANGED <<profiles, loadFrame>>

\* load: the houses query answers; setHouses, and the first house is
\* selected if none was when the effect ran
LoadHouses(k) ==
    /\ LoadAt(k, "houses")
    /\ cal' = [cal EXCEPT
                 !.houses = houses,
                 !.selectedHouseId =
                     IF Len(houses) > 0 /\ cal.loads[k].selectedHouseId = 0
                     THEN houses[1].id ELSE @,
                 !.loads[k].pc = "loaded"]
    /\ UNCHANGED <<profiles, loadFrame>>

\* onChange of the name input
TypeName(str) ==
    /\ cal.location = "/calendar"
    /\ cal.nameModalOpen
    /\ cal.nameInput # str
    /\ cal' = [cal EXCEPT !.nameInput = str]
    /\ UNCHANGED <<profiles, loadFrame>>

\* signOutAndGoLogin: Cancel, or a click on the backdrop of the name dialog
NameCancel ==
    /\ cal.location = "/calendar"
    /\ cal.nameModalOpen
    /\ cal' = [cal EXCEPT !.session = "none", !.location = "/login"]
    /\ UNCHANGED <<profiles, loadFrame>>

\* saveRequiredName on a blank input
SaveNameBlank ==
    /\ cal.location = "/calendar"
    /\ cal.nameModalOpen
    /\ cal.nameUser # "none"
    /\ TrimName(cal.nameInput) = ""
    /\ cal' = [cal EXCEPT !.nameError = "Please enter your name to continue."]
    /\ UNCHANGED <<profiles, loadFrame>>

\* saveRequiredName up to the await of the upsert (Continue is disabled
\* while a call runs, Enter in the input is not)
SaveNameBegin ==
    /\ cal.location = "/calendar"
    /\ cal.nameModalOpen
    /\ cal.nameUser # "none"
    /\ TrimName(cal.nameInput) # ""
    /\ Len(cal.nameCalls) < MaxNameCalls
    /\ cal' = [cal EXCEPT !.nameSaving = TRUE,
                          !.nameError = "none",
                          !.nameCalls = Append(@, [id |-> cal.nameUser,
                                                   name |-> TrimName(cal.nameInput)])]
    /\ UNCHANGED <<profiles, loadFrame>>

\* the upsert of the oldest call fails
SaveNameError ==
    /\ cal.location = "/calendar"
    /\ Len(cal.nameCalls) > 0
    /\ cal' = [cal EXCEPT !.nameError = "upsert failed",
                          !.nameSaving = FALSE,
                          !.nameCalls = Tail(@)]
    /\ UNCHANGED <<profiles, loadFrame>>

\* the upsert of the oldest call is stored: the dialog closes, refresh
SaveNameStored ==
    /\ cal.location = "/calendar"
    /\ Len(cal.nameCalls) > 0
    /\ LET c == Head(cal.nameCalls)
       IN  profiles' = [u \in (DOMAIN profiles) \cup {c.id} |->
                           [name |-> IF u = c.id THEN c.name ELSE profiles[u].name,
                            is_admin |-> ProfIsAdmin(u)]]
    /\ cal' = [cal EXCEPT !.nameModalOpen = FALSE,
                          !.nameUser = "none",
                          !.nameInput = "",
                          !.refreshKey = @ + 1,
                          !.nameSaving = FALSE,
                          !.nameCalls = Tail(@)]
    /\ UNCHANGED loadFrame

\* onSelect until the first booking is stored
FirstSelect(s, e) ==
    /\ bookings = <<>>
    /\ OpenCreateModal(s, e)

\* selections made while the page loads: stays of 1 and of 0 nights
LoadRanges ==
    { << <<2026, 3, 6>>, <<2026, 3, 7>> >>,
      << <<2026, 3, 7>>, <<2026, 3, 7>> >> }

\* the calendar page at mount, opened signed out, by a user with a name, by
\* a user whose profile has no name, or by a user without a profile
InitLoad ==
    /\ zone \in CalendarZones
    /\ houses = <<House(1, "Bay Ave"), House(2, "Bear Ln")>>
    /\ bookings = <<>>
    /\ HandlerIdle
    /\ ovArgs = None
    /\ ovResult = None
    /\ rate = None
    /\ profiles = [u \in {"u1", "u4"} |->
                      [name |-> IF u = "u1" THEN "Ann" ELSE "",
                       is_admin |-> FALSE]]
    /\ \E u \in {"none", "u1", "u3", "u4"} :
          cal = [ session |-> u,
                  location |-> "/calendar",
                  houses |-> <<>>,
                  selectedHouseId |-> 0,
                  bookingModalOpen |-> FALSE,
                  pendingStart |-> None,
                  pendingEnd |-> None,
                  guestCountInput |-> "2",
                  saving |-> FALSE,
                  modalError |-> "none",
                  refreshKey |-> 0,
                  call |-> None,
                  currentUserId |-> "none",
                  isAdmin |-> FALSE,
                  nameModalOpen |-> FALSE,
                  nameInput |-> "",
                  nameSaving |-> FALSE,
                  nameError |-> "none",
                  nameUser |-> "none",
                  nameCalls |-> <<>>,
                  started |-> 0,
                  loads |-> [k \in LoadRuns |->
                                [pc |-> "none", userId |-> "none",
                                 selectedHouseId |-> 0]] ]
    /\ adm = None
    /\ upg = None
    /\ req = None
    /\ second = None
    /\ cnl = None

NextLoad ==
    \/ LoadBegin
    \/ \E k \in LoadRuns :
          \/ LoadRedirect(k)
          \/ LoadGotUser(k)
          \/ EnsureNoUser(k)
          \/ EnsureGotUser(k)
          \/ EnsureProfileError(k)
          \/ EnsureProfile(k)
          \/ LoadHousesError(k)
          \/ LoadHouses(k)
    \/ \E str \in NameInputs : TypeName(str)
    \/ NameCancel
    \/ SaveNameBlank
    \/ SaveNameBegin
    \/ SaveNameError
    \/ SaveNameStored
    \/ SessionEnds
    \/ \E r \in LoadRanges : FirstSelect(r[1], r[2])
    \/ CloseCreateModal
    \/ ConfirmDropped
    \/ ConfirmBegin
    \/ ConfirmRedirect
    \/ ConfirmGotUser
    \/ ConfirmInvalid
    \/ ConfirmInsert
    \/ ConfirmInsertError
    \/ ConfirmInserted
    \/ ConfirmNotified

SpecLoad == InitLoad /\ [][NextLoad]_vars

(***************************************************************************)
(* Properties of countOverlapDays (under SpecOverlap)                      *)
(***************************************************************************)
Max(a, b) == IF a >= b THEN a ELSE b

Min(a, b) == IF a <= b THEN a ELSE b

\* max(0, min(e, we) - max(s, ws)) on calendar dates, in whole days
ClampedDays(s, e, ws, we) ==
    Max(0, Min(DayNumber(e), DayNumber(we)) - Max(DayNumber(s), DayNumber(ws)))

OverlapCalled == ovResult # None

\* C1: for every booking date pair and every window [winStart, winEnd),
\* countOverlapDays returns max(0, min(end_date, winEnd) -
\* max(start_date, winStart)) in whole days; a booking that straddles a
\* window boundary contributes only the days inside the window.
C1_OverlapIsClampedDifference ==
    OverlapCalled =>
        ovResult[1] = ClampedDays(ovArgs.bs, ovArgs.be, ovArgs.ws, ovArgs.we)

\* 2026-01-30..2026-02-02 against January has given 2
C1_Witness ==
    /\ OverlapCalled
    /\ ovArgs = [bs |-> <<2026, 1, 30>>, be |-> <<2026, 2, 2>>,
                 ws |-> <<2026, 1, 1>>, we |-> <<2026, 2, 1>>]
    /\ ovResult = <<2>>

\* C7: for every booking and every window, countOverlapDays returns a
\* value >= 0.
C7_OverlapNonNegative == OverlapCalled => ovResult[1] >= 0

\* a booking that ends before the window starts has been counted
C7_Witness ==
    /\ OverlapCalled
    /\ DateLT(ovArgs.be, ovArgs.ws)
    /\ DateLT(ovArgs.ws, ovArgs.we)
    /\ ovResult[1] >= 0

\* C8: for every booking with start_date < end_date that lies inside the
\* window (winStart <= start_date, end_date <= winEnd), countOverlapDays
\* returns end_date - start_date.
C8_ContainedBookingCountsFully ==
    ( /\ OverlapCalled
      /\ DateLT(ovArgs.bs, ovArgs.be)
      /\ ~DateLT(ovArgs.bs, ovArgs.ws)
      /\ ~DateLT(ovArgs.we, ovArgs.be) )
    => ovResult[1] = DayNumber(ovArgs.be) - DayNumber(ovArgs.bs)

\* a booking strictly inside the window, across a daylight saving switch
C8_Witness ==
    /\ OverlapCalled
    /\ zone.name = "America/New_York"
    /\ ovArgs = [bs |-> <<2026, 3, 6>>, be |-> <<2026, 3, 10>>,
                 ws |-> <<2026, 3, 1>>, we |-> <<2026, 4, 1>>]
    /\ ovResult = <<4>>

\* C9: for every booking that does not intersect the window
\* (end_date <= winStart or start_date >= winEnd), countOverlapDays
\* returns 0.
C9_DisjointBookingCountsZero ==
    ( /\ OverlapCalled
      /\ \/ ~DateLT(ovArgs.ws, ovArgs.be)
         \/ ~DateLT(ovArgs.bs, ovArgs.we) )
    => ovResult[1] = 0

\* a well-formed booking that starts on the window's end date
C9_Witness ==
    /\ OverlapCalled
    /\ ovArgs.bs = ovArgs.we
    /\ DateLT(ovArgs.bs, ovArgs.be)
    /\ DateLT(ovArgs.ws, ovArgs.we)
    /\ ovResult = <<0>>

(***************************************************************************)
(* Properties of getPreviousMonthWindow (under SpecWindow)                 *)
(***************************************************************************)
WindowComputed == pc # "idle"

\* the calendar month before the month of n, as <<year, month>>, month 1..12
MonthBefore(n) == IF n.month = 0 THEN <<n.year - 1, 12>> ELSE <<n.year, n.month>>

\* first day of the month before the month of now: the window start date
WinStartDate == <<MonthBefore(now)[1], MonthBefore(now)[2], 1>>

\* first day of the month of now: the window end date
WinEndDate == <<now.year, now.month + 1, 1>>

\* C6: for every invocation date in calendar month M the default window is
\* [first day of M-1, first day of M): December of the previous year for an
\* invocation in January, else the preceding month of the same year; the
\* label is the year-month of the window start.
C6_WindowIsPreviousMonth ==
    WindowComputed =>
        /\ win.monthStart = LocalMidnight(zone, DayNumber(WinStartDate))
        /\ win.monthEnd = LocalMidnight(zone, DayNumber(WinEndDate))
        /\ win.label = MonthBefore(now)

\* an invocation in January 2026 has produced the window of December 2025
C6_Witness ==
    /\ WindowComputed
    /\ now.year = 2026
    /\ now.month = 0
    /\ win.label = <<2025, 12>>
    /\ win.totalDays = 31

(***************************************************************************)
(* Properties of GET /api/usage (under Spec)                               *)
(***************************************************************************)
Done200 == pc = "done" /\ response.status = 200

\* the booking's date range meets the month window, on calendar dates
Intersects(b) ==
    DateLT(b.start_date, WinEndDate) /\ DateLT(WinStartDate, b.end_date)

ActiveIntersecting(b) == b.status = "active" /\ Intersects(b)

IsActive(b) == b.status = "active"

\* sum of countOverlapDays over the rows of table that belong to house id
RECURSIVE SumOverlapFrom(_, _, _)
SumOverlapFrom(table, i, id) ==
    IF i > Len(table) THEN 0
    ELSE (IF table[i].house_id = id
          THEN CountOverlapDays(zone, table[i].start_date, table[i].end_date,
                                win.monthStart, win.monthEnd)
          ELSE 0)
         + SumOverlapFrom(table, i + 1, id)

\* sum of the clamped calendar-day differences of the active bookings of
\* house id
RECURSIVE ActiveDaysFrom(_, _, _)
ActiveDaysFrom(table, i, id) ==
    IF i > Len(table) THEN 0
    ELSE (IF table[i].house_id = id /\ table[i].status = "active"
          THEN ClampedDays(table[i].start_date, table[i].end_date,
                           WinStartDate, WinEndDate)
          ELSE 0)
         + ActiveDaysFrom(table, i + 1, id)

HouseIds(hs) == { hs[i].id : i \in 1..Len(hs) }

\* C2: for every house, daysWithBookings equals the sum of countOverlapDays
\* over all active bookings of that house that intersect the month window;
\* overlapping bookings of one house are each counted in full.
C2_DaysAreSumOverIntersectingBookings ==
    Done200 =>
        \A i \in 1..Len(response.rows) :
            response.rows[i].daysWithBookings
                = SumOverlapFrom(SelectSeq(bookings, ActiveIntersecting), 1,
                                 response.rows[i].houseId)

\* C3: one UsageRecord per house of the house list, in the order of the
\* list, houses without matching bookings included; no record for a
\* house_id that appears only in bookings.
C3_OneRecordPerHouseInOrder ==
    Done200 =>
        /\ houseList = houses
        /\ Len(response.rows) = Len(houseList)
        /\ \A i \in 1..Len(houseList) :
              /\ response.rows[i].houseId = houseList[i].id
              /\ response.rows[i].houseName = houseList[i].name

\* a listed house without any fetched booking has its record, and a fetched
\* booking belongs to a house that is not listed
C3_Witness ==
    /\ Done200
    /\ Len(houseList) >= 1
    /\ \E i \in 1..Len(houseList) :
          /\ response.rows[i].daysWithBookings = 0
          /\ \A j \in 1..Len(bookingRows) : bookingRows[j].house_id # houseList[i].id
    /\ \E j \in 1..Len(bookingRows) : bookingRows[j].house_id \notin HouseIds(houseList)

\* C4: a cancelled booking contributes 0 days to every house, whatever its
\* dates; only active bookings are counted.
C4_CancelledBookingsNotCounted ==
    Done200 =>
        /\ \A j \in 1..Len(bookingRows) : bookingRows[j].status = "active"
        /\ \A i \in 1..Len(response.rows) :
              response.rows[i].daysWithBookings
                  <= ActiveDaysFrom(bookings, 1, response.rows[i].houseId)

\* a cancelled booking of a listed house meets the window, and the house's
\* record holds the days of its active booking only
C4_Witness ==
    /\ Done200
    /\ \E j \in 1..Len(bookings), i \in 1..Len(response.rows) :
          /\ bookings[j].status = "cancelled"
          /\ Intersects(bookings[j])
          /\ bookings[j].house_id = response.rows[i].houseId
          /\ response.rows[i].daysWithBookings = 5

\* C5: the pre-filter keeps exactly the active bookings with
\* start_date < monthWindow.end and end_date > monthWindow.start, on the
\* calendar dates of the window given to countOverlapDays; so the totals
\* equal those of countOverlapDays summed over every active booking.
C5_PrefilterMatchesWindow ==
    Done200 =>
        /\ bookingRows = SelectSeq(bookings, ActiveIntersecting)
        /\ \A i \in 1..Len(response.rows) :
              response.rows[i].daysWithBookings
                  = SumOverlapFrom(SelectSeq(bookings, IsActive), 1,
                                   response.rows[i].houseId)

\* C10: a house with no active booking intersecting the window gets
\* daysWithBookings = 0 and usageRate = 0, with totalDays the length of the
\* window.
C10_UnbookedHouseIsZero ==
    Done200 =>
        \A i \in 1..Len(response.rows) :
            (\A j \in 1..Len(bookings) :
                ~(bookings[j].house_id = response.rows[i].houseId
                  /\ ActiveIntersecting(bookings[j])))
            => /\ response.rows[i].daysWithBookings = 0
               /\ response.rows[i].usageRate[1] = 0
               /\ response.rows[i].usageRate[2] > 0
               /\ response.rows[i].totalDays
                      = DayNumber(WinEndDate) - DayNumber(WinStartDate)

\* house 3 has no booking in January while house 1 has 11 booked days
C10_Witness ==
    /\ Done200
    /\ win.label = <<2026, 1>>
    /\ \E i, k \in 1..Len(response.rows) :
          /\ response.rows[i].houseId = 3
          /\ response.rows[i].daysWithBookings = 0
          /\ response.rows[i].totalDays = 31
          /\ response.rows[k].daysWithBookings = 11

(***************************************************************************)
(* Properties of the usage rate (under SpecRate)                           *)
(***************************************************************************)
RateCalled == rate # None /\ rate.result # None

\* r is the quotient days / totalDays, or 0 when totalDays = 0, and was
\* formed without a zero denominator
RateIsQuotient(r, days, totalDays) ==
    /\ r[2] # 0
    /\ totalDays > 0 => r[1] * totalDays = days * r[2]
    /\ totalDays = 0 => r[1] = 0

\* C11: every emitted usageRate equals daysWithBookings / totalDays when
\* totalDays > 0 and 0 when totalDays = 0; there is no division by zero.
C11_RateIsGuardedQuotient ==
    /\ Done200 =>
          \A i \in 1..Len(response.rows) :
              RateIsQuotient(response.rows[i].usageRate,
                             response.rows[i].daysWithBookings,
                             response.rows[i].totalDays)
    /\ RateCalled => RateIsQuotient(rate.result, rate.days, rate.totalDays)

\* the expression has been evaluated for booked days over a window of
\* length 0 and gave 0
C11_Witness ==
    /\ RateCalled
    /\ rate.totalDays = 0
    /\ rate.days > 0
    /\ rate.result[1] = 0

(***************************************************************************)
(* Range of the usage rate (under SpecDense)                               *)
(***************************************************************************)
\* the active bookings of house id that intersect the month window
IntersectingOf(id) ==
    LET Mine(b) == b.house_id = id /\ ActiveIntersecting(b)
    IN  SelectSeq(bookings, Mine)

C13_TotalDaysIsMonthLength ==
    WindowComputed =>
        /\ win.totalDays = DayNumber(WinEndDate) - DayNumber(WinStartDate)
        /\ win.totalDays = DaysInMonth(MonthBefore(now)[1], MonthBefore(now)[2])
        /\ 28 <= win.totalDays
        /\ win.totalDays <= 31

\* March 2026 in New York, one hour short of 31 days, has totalDays = 31
C13_Witness ==
    /\ WindowComputed
    /\ win.label = <<2026, 3>>
    /\ win.monthEnd - win.monthStart = 31 * HoursPerDay - 1
    /\ win.totalDays = 31

(***************************************************************************)
(* Malformed bookings (under SpecMalformed)                                *)
(***************************************************************************)
Malformed(b) == ~DateLT(b.start_date, b.end_date)

WellFormed(b) == DateLT(b.start_date, b.end_date)

\* C14: a booking with end_date <= start_date contributes 0 overlap days
\* for every window and is skipped by the aggregation: no error (the
\* handler answers 200 with the rows), no negative and no positive
\* contribution.
\* (the store and the zone do not change during a request, so the first
\* conjunct is evaluated before the handler starts)
C14_MalformedBookingCountsZero ==
    /\ pc = "idle" =>
          \A j \in 1..Len(bookings) :
              Malformed(bookings[j]) =>
                  \A ws \in WindowDates, we \in WindowDates :
                      CountOverlapDays(zone, bookings[j].start_date,
                                       bookings[j].end_date,
                                       ParseLocal(zone, ws),
                                       ParseLocal(zone, we)) = 0
    /\ Done200 =>
          \A i \in 1..Len(response.rows) :
              response.rows[i].daysWithBookings
                  = SumOverlapFrom(SelectSeq(bookingRows, WellFormed), 1,
                                   response.rows[i].houseId)

\* a reversed booking of house 1 was fetched with a stay of 5 days, and
\* the record of house 1 holds the 5 days
C14_Witness ==
    /\ Done200
    /\ \E j \in 1..Len(bookingRows), i \in 1..Len(response.rows) :
          /\ Malformed(bookingRows[j])
          /\ DateLT(bookingRows[j].end_date, bookingRows[j].start_date)
          /\ bookingRows[j].house_id = response.rows[i].houseId
          /\ response.rows[i].daysWithBookings = 5

(***************************************************************************)
(* Properties of confirmCreateBooking (under SpecCalendar)                 *)
(***************************************************************************)
\* nights of a stay, counted in calendar days
Nights(start_date, end_date) == DayNumber(end_date) - DayNumber(start_date)

\* this step is the last one of a confirmCreateBooking call
CallEnds == cal.call # None /\ cal'.call = None

\* this step sends the insert of a confirmCreateBooking call
InsertSent == CallAt("getSession") /\ cal'.call # None /\ cal'.call.pc = "insert"

CallNights == Nights(cal.call.pendingStart, cal.call.pendingEnd)

AllStaysShort ==
    \A i \in 1..Len(bookings) :
        Nights(bookings[i].start_date, bookings[i].end_date) \in 1..7

\* C15, as stated: every booking inserted by confirmCreateBooking has
\* between 1 and 7 nights, and a call on a selection of 0 or fewer nights
\* or of more than 7 nights ends with the modal error set and nothing
\* inserted.
C15_StayOneToSevenElseModalError ==
    [][ /\ bookings' # bookings => AllStaysShort'
        /\ (CallEnds /\ CallNights \notin 1..7) =>
              /\ cal'.modalError # "none"
              /\ bookings' = bookings ]_vars

\* C15, amended: every booking inserted by confirmCreateBooking has between
\* 1 and 7 nights; a call on a selection of 0 or fewer nights or of more
\* than 7 nights never sends the insert and inserts nothing, and it ends
\* with the modal error set unless the user turned out to be signed out, in
\* which case it ends with the redirect to /login (a call stopped at the
\* entry guards changes nothing at all).
C15_StayOneToSevenElseErrorOrRedirect ==
    [][ /\ bookings' # bookings => AllStaysShort'
        /\ (cal.call # None /\ CallNights \notin 1..7) =>
              /\ ~InsertSent
              /\ bookings' = bookings
              /\ CallEnds =>
                    \/ cal'.modalError \in { "Invalid date range.",
                                             "Max stay is 7 nights.",
                                             "Guest count must be a number >= 1." }
                    \/ cal'.location = "/login" /\ cal'.modalError = "none" ]_vars

\* a stay of 7 nights across the daylight saving switch is stored, and the
\* dialog shows the max stay error for a selection of 8 nights
C15_Witness ==
    /\ \E i \in 1..Len(bookings) :
          /\ Nights(bookings[i].start_date, bookings[i].end_date) = 7
          /\ ParseLocal(zone, bookings[i].end_date)
                 - ParseLocal(zone, bookings[i].start_date) = 7 * HoursPerDay - 1
    /\ cal.bookingModalOpen
    /\ cal.call = None
    /\ Nights(cal.pendingStart, cal.pendingEnd) = 8
    /\ cal.modalError = "Max stay is 7 nights."

\* an integer that is at least 1
IsGuestCount(n) == n.finite /\ n.tenths % 10 = 0 /\ n.tenths >= 10

\* C16: every insert sent and every booking inserted by
\* confirmCreateBooking has a guest_count that is an integer >= 1, and a
\* call of a signed-in user on any other guest-count input ends with the
\* modal error set and nothing inserted.
C16_GuestCountIntegerElseModalError ==
    [][ /\ \A i \in 1..Len(bookings') : IsGuestCount(bookings'[i].guest_count)
        /\ InsertSent => IsGuestCount(NumberOf(cal.call.guestCountInput))
        /\ ( /\ CallEnds
             /\ cal.call.user # "none"
             /\ ~IsGuestCount(NumberOf(cal.call.guestCountInput)) ) =>
                 /\ cal'.modalError # "none"
                 /\ bookings' = bookings ]_vars

\* C17: a booking is never refused for overlapping an active booking of
\* the same house.  Whenever a confirmCreateBooking call of a signed-in user
\* gets past getSession with a guest count that is an integer >= 1 and a
\* stay of 1..7 nights, its next step sends the insert, whatever bookings
\* the store holds; and the dialog never shows an error other than the
\* three of the guest-count and nights checks.
C17_OverlapNeverRefused ==
    [][ /\ ( /\ CallAt("getSession")
             /\ cal'.call # cal.call
             /\ IsGuestCount(NumberOf(cal.call.guestCountInput))
             /\ CallNights \in 1..7 ) => InsertSent
        /\ cal'.modalError \in { "none",
                                 "Guest count must be a number >= 1.",
                                 "Invalid date range.",
                                 "Max stay is 7 nights." } ]_vars

\* two active bookings of house 1 created on the page share a night
C17_Witness ==
    /\ Len(bookings) = 2
    /\ bookings[1].house_id = 1
    /\ bookings[1].status = "active"
    /\ bookings[1].created_by = "u1"
    /\ IsGuestCount(bookings[2].guest_count)
    /\ Overlapping(bookings[1], bookings[2].house_id,
                   bookings[2].start_date, bookings[2].end_date)

(***************************************************************************)
(* Properties of the admin delete route (under SpecAdmin)                  *)
(***************************************************************************)
\* C18: a booking is deleted only by a request whose caller was
\* authenticated and found to have is_admin set; an answered request with
\* a missing accessToken or bookingId got 400, one of an unauthenticated
\* caller 401, one whose profile lookup failed 500, one of a caller
\* without is_admin 403, and a request answered 400, 401, 403, or 500 after
\* a failed profile lookup, never got as far as the delete.
C18_DeleteOnlyByAdmin ==
    [][ /\ (bookings' # bookings \/ AdmAt("delete")) =>
              /\ adm.accessToken # "" /\ adm.bookingId # 0
              /\ TokenUser(adm.accessToken) # "none"
              /\ adm.userId = TokenUser(adm.accessToken)
              /\ ~adm.profErr
              /\ adm.userId \in DOMAIN profiles
              /\ profiles[adm.userId].is_admin
        /\ (adm = None \/ ~AdmAt("done")) /\ adm' # None /\ adm'.pc = "done" /\ adm'.parsed =>
              LET a == adm'
                  missing == a.accessToken = "" \/ a.bookingId = 0
                  caller  == TokenUser(a.accessToken)
              IN  /\ missing => a.response.status = 400
                  /\ ~missing /\ caller = "none" => a.response.status = 401
                  /\ ~missing /\ caller # "none" /\ a.profErr => a.response.status = 500
                  /\ ~missing /\ caller # "none" /\ ~a.profErr /\ ~ProfIsAdmin(caller)
                        => a.response.status = 403
                  /\ (missing \/ caller = "none" \/ a.profErr \/ ~ProfIsAdmin(caller))
                        => bookings' = bookings /\ ~AdmAt("delete") ]_vars

\* a signed-in user who is no admin asked to delete booking 1, got 403, and
\* the booking is still there
C18_Witness ==
    /\ AdmAt("done")
    /\ adm.response.status = 403
    /\ adm.userId = "u1"
    /\ adm.bookingId = 1
    /\ \E i \in 1..Len(bookings) : bookings[i].id = 1

(***************************************************************************)
(* Properties of the usage route and page (under SpecUsage)                *)
(***************************************************************************)
\* C19: usage records go only to an authenticated admin: an answer of
\* /api/usage that carries usage rows was asked for by a caller who is
\* signed in and has is_admin set.
C19_UsageRowsOnlyToAdmin ==
    ( /\ req # None
      /\ req.state = "answered"
      /\ req.response.status = 200
      /\ Len(req.response.body.rows) > 0 ) =>
          /\ req.caller # "none"
          /\ ProfIsAdmin(req.caller)

\* C20: the request of the usage page is answered by the GET handler (the
\* aggregator), and once the page has taken the answer, its table has one
\* row per record of that answer.
C20_PageShowsAggregatorRows ==
    /\ ReqIs("page", "answered") =>
          /\ pc = "done"
          /\ req.response.status = response.status
    /\ (UpgAt("done") /\ upg.res # None) =>
          /\ upg.data # None
          /\ Len(TableRows) = Len(upg.res.body.rows)

(***************************************************************************)
(* Failure and frame properties of GET /api/usage (under Spec)             *)
(***************************************************************************)
\* the rows the bookings query of the running handler selects
FetchedNow ==
    SelectBookings(bookings, ToISODate(win.monthStart), ToISODate(win.monthEnd))

\* C21: a failed fetch is answered 500 without usage rows, and no
\* aggregation runs on it.  The handler leaves the houses query for its end
\* only through the houseErr return, which answers 500, with neither the
\* house list nor any booking row taken; it leaves the bookings query
\* either with 500 and no booking row taken, or with 200 on the rows the
\* query selected; and an answer of 500 never carries rows.
C21_FailedFetchAnswers500 ==
    [][ /\ (pc = "awaitHouses" /\ pc' = "done") =>
              /\ response'.status = 500
              /\ houseList' = houseList
              /\ bookingRows' = bookingRows
        /\ (pc = "awaitBookings" /\ pc' = "done") =>
              \/ /\ response'.status = 500
                 /\ bookingRows' = bookingRows
              \/ /\ response'.status = 200
                 /\ bookingRows' = FetchedNow
                 /\ response'.rows
                        = BuildRows(houseList, UsageByHouse(zone, FetchedNow, win), win)
        /\ (pc' = "done" /\ response'.status = 500) => response'.rows = None ]_vars

\* the houses were listed, the bookings query failed on a store that holds
\* bookings, and the answer is 500
C21_Witness ==
    /\ pc = "done"
    /\ response.status = 500
    /\ Len(houses) > 0
    /\ houseList = houses
    /\ Len(bookings) > 0

\* C22: the handler is read-only: no step of an invocation, whatever its
\* outcome, changes table houses or table bookings.
C22_StoreUnchanged ==
    [][ houses' = houses /\ bookings' = bookings ]_vars

\* an invocation that fetched bookings has answered, over a store with
\* houses and bookings
C22_Witness ==
    /\ Done200
    /\ Len(houses) > 0
    /\ Len(bookingRows) > 0

(***************************************************************************)
(* Independence of invocations (under SpecConcurrent)                      *)
(***************************************************************************)
\* the answer of an invocation that runs alone on the store on date n
AloneResponse(n) ==
    LET w == GetPreviousMonthWindow(zone, n)
        fetched == SelectBookings(bookings, ToISODate(w.monthStart),
                                  ToISODate(w.monthEnd))
    IN  [ status    |-> 200,
          month     |-> w.label,
          totalDays |-> w.totalDays,
          rows      |-> BuildRows(houses, UsageByHouse(zone, fetched, w), w) ]

SecondDone200 == SecondAt("done") /\ second.response.status = 200

\* C23: over a fixed store, however the steps of two invocations
\* interleave, each invocation that answers 200 answers what it would have
\* answered alone, and two invocations on the same date answer the same.
C23_InvocationsIndependent ==
    /\ Done200 => response = AloneResponse(now)
    /\ SecondDone200 => second.response = AloneResponse(second.now)
    /\ (Done200 /\ SecondDone200 /\ now = second.now) => response = second.response

\* two invocations on the same date have both answered, with a house that
\* has booked days
C23_Witness ==
    /\ Done200
    /\ SecondDone200
    /\ now = second.now
    /\ \E i \in 1..Len(response.rows) : response.rows[i].daysWithBookings > 0

(***************************************************************************)
(* Properties of cancelBooking (under SpecCancel)                          *)
(***************************************************************************)
\* the row of this call's booking is missing, another user's, or not active
NotCancellable(s) ==
    LET row == RowById(bookings, cnl.sess[s].bookingId)
    IN  \/ row = None
        \/ row.created_by # cnl.sess[s].userId
        \/ row.status # "active"

\* C24: a booking's status changes only from active to cancelled, and only
\* by the update of a cancelBooking call whose signed-in user is the
\* booking's creator; a call whose lookup finds no booking, another user's
\* booking or a cancelled booking returns without an update and without a
\* notification, and updates and notifications come from no other calls;
\* no step turns a cancelled booking back to active.
C24_CancelOnlyOwnActive ==
    [][ /\ \A i \in 1..Len(bookings) :
              bookings'[i].status # bookings[i].status =>
                  /\ bookings[i].status = "active"
                  /\ bookings'[i].status = "cancelled"
                  /\ \E s \in Sessions :
                        /\ CnlAt(s, "update")
                        /\ cnl.sess[s].bookingId = bookings[i].id
                        /\ cnl.sess[s].userId = bookings[i].created_by
        /\ \A s \in Sessions :
              (CnlAt(s, "select") /\ ~CnlAt(s, "select")' /\ NotCancellable(s)) =>
                  /\ CnlAt(s, "idle")'
                  /\ bookings' = bookings
                  /\ cnl'.updates = cnl.updates
                  /\ cnl'.mail = cnl.mail
        /\ (cnl'.updates # cnl.updates \/ cnl'.mail # cnl.mail) =>
              \E s \in Sessions :
                  /\ CnlAt(s, "update")
                  /\ cnl.sess[s].row.status = "active"
                  /\ cnl.sess[s].row.created_by = cnl.sess[s].userId
                  /\ cnl.sess[s].userId # "none" ]_vars

\* user u1 has cancelled the own booking 1 and then asked to cancel booking
\* 2 of user u2, which is still active and was not notified
C24_Witness ==
    /\ bookings[1].status = "cancelled"
    /\ cnl.updates[1] = 1
    /\ CnlAt("s1", "idle")
    /\ cnl.sess["s1"].bookingId = 2
    /\ cnl.sess["s1"].row # None
    /\ cnl.sess["s1"].row.created_by = "u2"
    /\ bookings[2].status = "active"
    /\ cnl.updates[2] = 0
    /\ cnl.mail[2] = 0

\* C25: however two cancelBooking calls on one booking interleave, the
\* store executes at most one update for the booking and at most one
\* cancellation notification is sent for it.
C25_OneUpdateOneNotification ==
    \A id \in CancelIds : cnl.updates[id] <= 1 /\ cnl.mail[id] <= 1

(***************************************************************************)
(* The saving flag and the notification (under SpecCalendar)               *)
(***************************************************************************)
\* C26: saving is true exactly while a confirmCreateBooking call is in
\* progress, so it is false again after every exit of the call; a call is
\* accepted only while saving is false and no call is in progress; and a
\* booking is inserted only by the insert of the call in progress, one row
\* per call.
C26_OneInsertPerConfirm ==
    [][ /\ cal'.saving <=> cal'.call # None
        /\ (cal'.call # None /\ cal'.call.pc = "getUser" /\ ~CallAt("getUser")) =>
              /\ ~cal.saving
              /\ cal.call = None
        /\ CallEnds => ~cal'.saving
        /\ bookings' # bookings =>
              /\ CallAt("insert")
              /\ Len(bookings') = Len(bookings) + 1
              /\ cal'.call = None \/ cal'.call.pc = "notify" ]_vars

\* a call is waiting for its insert while the dialog is open on a new
\* selection, and an earlier call has inserted its booking
C26_Witness ==
    /\ cal.saving
    /\ CallAt("insert")
    /\ cal.bookingModalOpen
    /\ cal.pendingStart # None
    /\ Len(bookings) = 1

\* C27: once the insert has succeeded the create flow is free again: while
\* the request to /api/notify-booked is still out, saving is false, so a
\* new confirmCreateBooking is accepted.
C27_NotifyDoesNotBlock ==
    CallAt("notify") => ~cal.saving

(***************************************************************************)
(* The required name (under SpecLoad)                                      *)
(***************************************************************************)
\* C28: a name is required to use the calendar.  Houses are loaded and a
\* house is selected only if the profile of the signed-in user held a
\* non-empty name when the load effect looked it up; when the lookup finds
\* no name the name dialog opens and stays open until a name is stored (or
\* the user leaves for /login), the house list is queried only by a run
\* whose user has a name, every booking inserted is by a user with a name,
\* and a name that saveRequiredName sends or has stored is never blank.
C28_CalendarRequiresName ==
    /\ (cal.houses # <<>> \/ cal.selectedHouseId # 0)
          => ProfName(cal.currentUserId) # ""
    /\ \A k \in LoadRuns :
          /\ cal.loads[k].pc \in {"houses", "housesError", "loaded"}
                => ProfName(cal.loads[k].userId) # ""
          /\ ( /\ cal.loads[k].pc = "noName"
               /\ ProfName(cal.loads[k].userId) = ""
               /\ cal.location = "/calendar" )
                => /\ cal.nameModalOpen
                   /\ cal.houses = <<>>
                   /\ cal.selectedHouseId = 0
    /\ \A i \in 1..Len(bookings) : ProfName(bookings[i].created_by) # ""
    /\ \A i \in 1..Len(cal.nameCalls) : TrimName(cal.nameCalls[i].name) # ""
    /\ \A u \in DOMAIN profiles :
          profiles[u].name # "" => TrimName(profiles[u].name) # ""

\* a user without a profile got the name dialog, stored a name, and then
\* the houses were loaded and a booking of theirs was inserted
C28_Witness ==
    /\ cal.loads[0].pc = "noName"
    /\ cal.loads[0].userId = "u3"
    /\ ProfName("u3") = "Cy"
    /\ cal.houses # <<>>
    /\ \E i \in 1..Len(bookings) : bookings[i].created_by = "u3"

====
